---------------------------- MODULE Spec2Model ----------------------------
(***************************************************************************)
(* Model of the DDoS detector v2 of Nemea-Detectors (ddos_detector_v2):    *)
(* the reversible sketches, the adaptive CUSUM, the ingress loop of main,  *)
(* the pipe between ingress and the detector thread, and the detection     *)
(* loop with threshold installation and false-positive feedback.           *)
(*                                                                         *)
(* Scaling.  Addresses have KeyBits one-bit "octets" instead of four       *)
(* eight-bit octets; bit 0 is the first octet of the dotted address (the   *)
(* records hold addresses in network byte order, so the first octet is the *)
(* least significant byte of the uint32_t) and the last bit is the host    *)
(* octet, the one "& 0x00FFFFFF" clears and ">> 24" extracts.  Doubles are *)
(* fixed-point integers in units of 1/Scale, thresholds are exact          *)
(* rationals [n, d].  Sketch geometry, windows, flows and time are bounded.*)
(***************************************************************************)
EXTENDS Integers, Sequences, FiniteSets, TLC

VARIABLES
    now,                    \* TimeManager::now(), seconds
    pcMain,                 \* position of the main (ingress) thread
    first,                  \* main: bool first
    windowID,               \* main: uint32_t windowID
    currIntervalStart,      \* main: timePoint currIntervalStart
    falsePositiveCheckStart,\* main: timePoint falsePositiveCheckStart
    dstIPs,                 \* ddosDetector::dstIPs, the live destination sketch
    srcIPs,                 \* ddosDetector::srcIPs, the live source sketch
    pipe,                   \* ddosDetector::pipe, <<>> or <<PipeValue>>
    stop,                   \* ddosDetector::stop
    pcEngine,               \* position of the detector thread
    val,                    \* detectionProcess: PipeValue val
    col,                    \* detectionProcess: loop index j
    currTime,               \* detectionProcess: currTime
    learning,               \* detectionProcess: learning
    thresholdSet,           \* detectionProcess: thresholdSet
    learn_until,            \* detectionProcess: learn_until
    learningSecs,           \* ddosDetector::learningSecs_
    cusum,                  \* the five vectors of AdaptiveCUSUM, cusum[metric][column]
    dosAlertsQueue,         \* ddosDetector::dosAlertsQueue
    dosFalsePositivesQueue, \* ddosDetector::dosFalsePositivesQueue
    thresholdsFile,         \* the rows of thresholds.csv
    sentAlerts,             \* what main sent on the output interface
    hist,                   \* history of the run, read by the properties only
    operands                \* values the operations of the sketch cells are applied to

vars == <<now, pcMain, first, windowID, currIntervalStart, falsePositiveCheckStart,
          dstIPs, srcIPs, pipe, stop, pcEngine, val, col, currTime, learning,
          thresholdSet, learn_until, learningSecs, cusum, dosAlertsQueue,
          dosFalsePositivesQueue, thresholdsFile, sentAlerts, hist, operands>>

mainVars == <<pcMain, first, windowID, currIntervalStart, falsePositiveCheckStart>>
sketchVars == <<dstIPs, srcIPs>>
engineVars == <<pcEngine, val, col, currTime, learning, thresholdSet, learn_until,
                cusum>>
queueVars == <<dosAlertsQueue, dosFalsePositivesQueue>>

---------------------------------------------------------------------------
(* Bounds of the model *)

KeyBits == 4            \* bits of an address (32 in the code)
HostShift == 3          \* position of the host octet (24 in the code)
OuterSize == 2          \* rows of both sketches
InnerSizeDstIPs == 2    \* columns of the destination sketch
InnerSizeSrcIPs == 2    \* columns of the source sketch
MaxFlows == 2           \* flows processed in one window
MaxWindows == 2         \* snapshots posted by notifyWorker
MaxFalsePositives == 2  \* records the host sends on the feedback interface

Pow2(n) == 2 ^ n

Min(a, b) == IF a < b THEN a ELSE b
Max(a, b) == IF a > b THEN a ELSE b

Rows == 0 .. OuterSize - 1
DstCols == 0 .. InnerSizeDstIPs - 1
SrcCols == 0 .. InnerSizeSrcIPs - 1
Addresses == 0 .. Pow2(KeyBits) - 1

---------------------------------------------------------------------------
(* Addresses and prefix tries *)

Bit(k, i) == (k \div Pow2(i)) % 2

\* ip & 0x00FFFFFF
Prefix24(ip) == ip % Pow2(HostShift)

\* ip >> 24
HostOctet(ip) == ip \div Pow2(HostShift)

\* The protected prefixes of the subnet file: net/len with the multiplier
\* convertSensitivityToMultiplier gave the line.
ProtectedPrefixes ==
    { [net |-> 1, len |-> 3, mult |-> 2],
      [net |-> 6, len |-> 3, mult |-> 2],
      [net |-> 7, len |-> 3, mult |-> 2],
      [net |-> 10, len |-> 4, mult |-> 3] }

\* The prefixes of the whitelist file.
WhitelistedPrefixes == { [net |-> 2, len |-> 4] }

\* Trie::searchPrefix walks the bits of ntohl(ip), first octet first.
Matches(ip, e) == \A i \in 0 .. e.len - 1 : Bit(ip, i) = Bit(e.net, i)

isProtected(ip) == \E e \in ProtectedPrefixes : Matches(ip, e)

isWhitelisted(ip) ==
    isProtected(ip) \/ \E e \in WhitelistedPrefixes : Matches(ip, e)

getMultiplier(ip) ==
    LET hits == { e \in ProtectedPrefixes : Matches(ip, e) }
    IN  IF hits = {} THEN 0
        ELSE (CHOOSE e \in hits : \A o \in hits : o.len <= e.len).mult

---------------------------------------------------------------------------
(* binCountSketchValue<noBits> *)

BitIdx == 0 .. KeyBits - 1

binCountSketchValue(initialValue) ==
    [totalCount |-> initialValue, binCount |-> [i \in BitIdx |-> initialValue]]

\* Widths of the counters: u_int32_t, uint64_t and the uint16_t weight of
\* update (32, 64 and 16 in the code); unsigned arithmetic is modulo 2^width.
CountBits == 8
ByteBits == 10
WeightBits == 4

Wrap(x, bits) == x % Pow2(bits)

bcvUpdate(b, key, value) ==
    LET v == Wrap(value, WeightBits)
    IN  [totalCount |-> Wrap(b.totalCount + v, CountBits),
         binCount |-> [i \in BitIdx |->
                         IF Bit(key, i) = 1 THEN Wrap(b.binCount[i] + v, CountBits)
                         ELSE b.binCount[i]]]

RECURSIVE SumBits(_, _)
SumBits(b, i) ==
    IF i = KeyBits THEN 0
    ELSE (IF b.binCount[i] > b.totalCount \div 2 THEN Pow2(i) ELSE 0)
         + SumBits(b, i + 1)

RECURSIVE SumBitsFromHalf(_, _)
SumBitsFromHalf(b, i) ==
    IF i = KeyBits THEN 0
    ELSE (IF b.binCount[i] >= b.totalCount \div 2 THEN Pow2(i) ELSE 0)
         + SumBitsFromHalf(b, i + 1)

\* reverseKey with >= in the test of a bit
bcvReverseKeyFromHalf(b) == SumBitsFromHalf(b, 0)

bcvReverseKey(b) == SumBits(b, 0)

SatSub(a, b) == IF a < b THEN 0 ELSE a - b

bcvSub(a, b) ==
    [totalCount |-> SatSub(a.totalCount, b.totalCount),
     binCount |-> [i \in BitIdx |-> SatSub(a.binCount[i], b.binCount[i])]]

bcvAdd(a, b) ==
    [totalCount |-> Wrap(a.totalCount + b.totalCount, CountBits),
     binCount |-> [i \in BitIdx |->
                     Wrap(a.binCount[i] + b.binCount[i], CountBits)]]

---------------------------------------------------------------------------
(* ddosDetectorValue.  The two maps are functions on the keys present. *)

MapGet(m, k) == IF k \in DOMAIN m THEN m[k] ELSE 0

\* m[k] += n of std::map / std::unordered_map: creates the key
MapAdd(m, k, n) ==
    [x \in (DOMAIN m) \cup {k} |->
        IF x = k THEN Wrap(MapGet(m, k) + n, CountBits) ELSE m[x]]

\* the loops of operator-= with >= in the test: an equal entry stays, as 0
MapSubKeepEqual(m, o) ==
    LET keep == { k \in DOMAIN m : k \notin DOMAIN o \/ m[k] >= o[k] }
    IN  [k \in keep |-> IF k \in DOMAIN o THEN m[k] - o[k] ELSE m[k]]

\* the loops of operator-=: an entry is reduced when larger, erased otherwise
MapSub(m, o) ==
    LET keep == { k \in DOMAIN m : k \notin DOMAIN o \/ m[k] > o[k] }
    IN  [k \in keep |-> IF k \in DOMAIN o THEN m[k] - o[k] ELSE m[k]]

\* the loops of operator+=
MapSum(m, o) ==
    [k \in (DOMAIN m) \cup (DOMAIN o) |->
        Wrap(MapGet(m, k) + MapGet(o, k), CountBits)]

EmptyMap == <<>>

ddosDetectorValue ==
    [sentBytes |-> 0, sentFlows |-> 0, packetCount |-> 0, byteCount |-> 0,
     flowCount |-> 0, reversibleKey |-> binCountSketchValue(0),
     communicatedWith |-> EmptyMap, ipSubnets |-> EmptyMap]

\* ddosDetectorValue::update(key, value): the key is not read, the address
\* of the record is
daUpdate(v, key, value) ==
    [v EXCEPT !.ipSubnets = MapAdd(@, HostOctet(value.dstAddr), 1),
              !.reversibleKey = bcvUpdate(@, value.dstAddr, 1),
              !.byteCount = Wrap(@ + value.bytes, ByteBits),
              !.packetCount = Wrap(@ + value.packets, CountBits),
              !.flowCount = Wrap(@ + 1, CountBits)]

daSub(a, o) ==
    [sentBytes |-> SatSub(a.sentBytes, o.sentBytes),
     sentFlows |-> SatSub(a.sentFlows, o.sentFlows),
     packetCount |-> SatSub(a.packetCount, o.packetCount),
     byteCount |-> SatSub(a.byteCount, o.byteCount),
     flowCount |-> SatSub(a.flowCount, o.flowCount),
     reversibleKey |-> bcvSub(a.reversibleKey, o.reversibleKey),
     communicatedWith |-> MapSub(a.communicatedWith, o.communicatedWith),
     ipSubnets |-> MapSub(a.ipSubnets, o.ipSubnets)]

daAdd(a, o) ==
    [sentBytes |-> Wrap(a.sentBytes + o.sentBytes, ByteBits),
     sentFlows |-> Wrap(a.sentFlows + o.sentFlows, CountBits),
     packetCount |-> Wrap(a.packetCount + o.packetCount, CountBits),
     byteCount |-> Wrap(a.byteCount + o.byteCount, ByteBits),
     flowCount |-> Wrap(a.flowCount + o.flowCount, CountBits),
     reversibleKey |-> bcvAdd(a.reversibleKey, o.reversibleKey),
     communicatedWith |-> MapSum(a.communicatedWith, o.communicatedWith),
     ipSubnets |-> MapSum(a.ipSubnets, o.ipSubnets)]

updateSentBytes(v, sentBytes) ==
    [v EXCEPT !.sentBytes = Wrap(@ + sentBytes, ByteBits),
              !.sentFlows = Wrap(@ + 1, CountBits)]

updateFlowCounter(v, index) ==
    [v EXCEPT !.communicatedWith = MapAdd(@, index, 1)]

---------------------------------------------------------------------------
(* CountMinSketch<Key, Value>: rows of cells [count, value]; row i hashes  *)
(* a key with its own seed pair, ((a * key + b) mod HashPrime) mod width.  *)

HashPrime == 31

DstSeeds == <<<<1, 0>>, <<3, 11>>, <<5, 2>>, <<7, 3>>>>
SrcSeeds == <<<<5, 1>>, <<2, 3>>, <<3, 4>>, <<9, 5>>>>

getColDst(key, i) ==
    ((DstSeeds[i + 1][1] * key + DstSeeds[i + 1][2]) % HashPrime) % InnerSizeDstIPs

getColSrc(key, i) ==
    ((SrcSeeds[i + 1][1] * key + SrcSeeds[i + 1][2]) % HashPrime) % InnerSizeSrcIPs

EmptyDstSketch ==
    [i \in Rows |-> [c \in DstCols |-> [count |-> 0, value |-> ddosDetectorValue]]]

EmptySrcSketch ==
    [i \in Rows |-> [c \in SrcCols |->
        [count |-> 0, value |-> binCountSketchValue(0)]]]

\* CountMinSketch::update on the destination sketch
cmsUpdateDst(sk, key, record) ==
    [i \in Rows |-> [c \in DstCols |->
        IF c = getColDst(key, i)
        THEN [count |-> sk[i][c].count + 1,
              value |-> daUpdate(sk[i][c].value, key, record)]
        ELSE sk[i][c]]]

\* CountMinSketch::update on the source sketch
cmsUpdateSrc(sk, key, value) ==
    [i \in Rows |-> [c \in SrcCols |->
        IF c = getColSrc(key, i)
        THEN [count |-> sk[i][c].count + 1,
              value |-> bcvUpdate(sk[i][c].value, key, value)]
        ELSE sk[i][c]]]

\* CountMinSketch::estimate: the (row, column) of the key's cell with the
\* least count, the lowest row on a tie
MinRow(cnt) == CHOOSE r \in Rows :
    /\ \A o \in Rows : cnt[r] <= cnt[o]
    /\ \A o \in Rows : cnt[o] = cnt[r] => r <= o

cmsEstimateDst(sk, key) ==
    LET r == MinRow([i \in Rows |-> sk[i][getColDst(key, i)].count])
    IN  <<r, getColDst(key, r)>>

cmsEstimateSrc(sk, key) ==
    LET r == MinRow([i \in Rows |-> sk[i][getColSrc(key, i)].count])
    IN  <<r, getColSrc(key, r)>>

\* CountMinSketch::dec: the key's cell of every row loses the cell given
cmsDecDst(sk, key, cell) ==
    [i \in Rows |-> [c \in DstCols |->
        IF c = getColDst(key, i)
        THEN [count |-> SatSub(sk[i][c].count, cell.count),
              value |-> daSub(sk[i][c].value, cell.value)]
        ELSE sk[i][c]]]

---------------------------------------------------------------------------
(* ddosDetector: the ingress side *)

\* updateCommunicatedWith with the flow counter keyed by the column of the
\* destination address in the source sketch
updateCommunicatedWithDstCol(dst, srcIP, dstIP, bytes, isDst) ==
    [i \in Rows |-> [c \in DstCols |->
        IF isDst
        THEN IF c = getColDst(Prefix24(dstIP), i)
             THEN [dst[i][c] EXCEPT
                     !.value = updateFlowCounter(@, getColSrc(dstIP, i))]
             ELSE dst[i][c]
        ELSE IF c = getColDst(Prefix24(srcIP), i)
             THEN [dst[i][c] EXCEPT !.value = updateSentBytes(@, bytes)]
             ELSE dst[i][c]]]

updateCommunicatedWith(dst, srcIP, dstIP, bytes, isDst) ==
    [i \in Rows |-> [c \in DstCols |->
        IF isDst
        THEN IF c = getColDst(Prefix24(dstIP), i)
             THEN [dst[i][c] EXCEPT
                     !.value = updateFlowCounter(@, getColSrc(srcIP, i))]
             ELSE dst[i][c]
        ELSE IF c = getColDst(Prefix24(srcIP), i)
             THEN [dst[i][c] EXCEPT !.value = updateSentBytes(@, bytes)]
             ELSE dst[i][c]]]

\* processCurrentFlow with the test of the source first
processCurrentFlowSrcFirst(dst, src, record) ==
    IF isProtected(record.srcAddr)
    THEN [dstIPs |-> updateCommunicatedWith(
                        dst, record.srcAddr, record.dstAddr, record.bytes, FALSE),
          srcIPs |-> cmsUpdateSrc(src, record.srcAddr, 1)]
    ELSE IF isProtected(record.dstAddr)
    THEN [dstIPs |-> updateCommunicatedWith(
                        cmsUpdateDst(dst, Prefix24(record.dstAddr), record),
                        record.srcAddr, record.dstAddr, record.bytes, TRUE),
          srcIPs |-> cmsUpdateSrc(src, record.srcAddr, 1)]
    ELSE [dstIPs |-> dst, srcIPs |-> src]

\* The pair of sketches after processCurrentFlow(record)
processCurrentFlow(dst, src, record) ==
    IF isProtected(record.dstAddr)
    THEN [dstIPs |-> updateCommunicatedWith(
                        cmsUpdateDst(dst, Prefix24(record.dstAddr), record),
                        record.srcAddr, record.dstAddr, record.bytes, TRUE),
          srcIPs |-> cmsUpdateSrc(src, record.srcAddr, 1)]
    ELSE IF isProtected(record.srcAddr)
    THEN [dstIPs |-> updateCommunicatedWith(
                        dst, record.srcAddr, record.dstAddr, record.bytes, FALSE),
          srcIPs |-> cmsUpdateSrc(src, record.srcAddr, 1)]
    ELSE [dstIPs |-> dst, srcIPs |-> src]

---------------------------------------------------------------------------
(* AdaptiveCUSUM.  A double is an integer in units of 1/Scale; alpha and c *)
(* are the rationals AlphaNum/AlphaDen and CNum/CDen; divisions round down *)
(* and the square root is the integer square root.  A threshold is the     *)
(* exact rational n/d; d = 0 is the infinity or NaN a division by a zero   *)
(* multiplier leaves, which no comparison exceeds.                         *)

Scale == 100
AlphaNum == 1
AlphaDen == 13
CNum == 1
CDen == 2
SpanWindows == 1

Metrics == {"bytes", "packets", "entropy", "bytesRS", "flowsRS"}

Rat(n, d) == [n |-> n, d |-> d]

\* a > b for rationals with denominators >= 0
RatLess(a, b) == a.d > 0 /\ b.d > 0 /\ a.n * b.d < b.n * a.d

RECURSIVE SqrtSearch(_, _, _)
SqrtSearch(x, lo, hi) ==
    IF lo >= hi THEN lo
    ELSE LET mid == (lo + hi + 1) \div 2
         IN  IF mid * mid <= x THEN SqrtSearch(x, mid, hi)
             ELSE SqrtSearch(x, lo, mid - 1)

\* floor of the square root
ISqrt(x) == SqrtSearch(x, 0, Min(x, 46340))

AdaptiveCUSUM ==
    [m |-> 0, v |-> 0, SH |-> 0, SL |-> 0, first |-> TRUE,
     thresholdHigh |-> Rat(0, 1), thresholdLow |-> Rat(0, 1),
     maxSH |-> 0, maxSL |-> 0, windowID |-> 0, lastAlert |-> 0]

\* process without the max(0.0, .) of SH and SL
processNoClamp(a, currentValue, isLearning) ==
    IF a.first
    THEN [a EXCEPT !.m = currentValue, !.v = 0, !.first = FALSE]
    ELSE
      LET diff == currentValue - a.m
          m2 == a.m + (AlphaNum * diff) \div AlphaDen
          v2 == ((AlphaDen - AlphaNum) * a.v + (AlphaNum * diff * diff) \div Scale)
                   \div AlphaDen
          dev == (CNum * ISqrt(v2 * Scale)) \div CDen
          upd == (~isLearning) \/ (a.windowID >= SpanWindows)
          sh2 == IF upd THEN a.SH + (currentValue - m2) - dev ELSE a.SH
          sl2 == IF upd THEN a.SL - (currentValue - m2) - dev ELSE a.SL
      IN  [a EXCEPT !.m = m2, !.v = v2, !.SH = sh2, !.SL = sl2,
                    !.maxSH = Max(sh2, a.maxSH), !.maxSL = Max(sl2, a.maxSL),
                    !.windowID = a.windowID + 1]

\* process without the test of learning and windowID
processUngated(a, currentValue, isLearning) ==
    IF a.first
    THEN [a EXCEPT !.m = currentValue, !.v = 0, !.first = FALSE]
    ELSE
      LET diff == currentValue - a.m
          m2 == a.m + (AlphaNum * diff) \div AlphaDen
          v2 == ((AlphaDen - AlphaNum) * a.v + (AlphaNum * diff * diff) \div Scale)
                   \div AlphaDen
          dev == (CNum * ISqrt(v2 * Scale)) \div CDen
          sh2 == Max(0, a.SH + (currentValue - m2) - dev)
          sl2 == Max(0, a.SL - (currentValue - m2) - dev)
      IN  [a EXCEPT !.m = m2, !.v = v2, !.SH = sh2, !.SL = sl2,
                    !.maxSH = Max(sh2, a.maxSH), !.maxSL = Max(sl2, a.maxSL),
                    !.windowID = a.windowID + 1]

\* process whose first sample leaves the mean at 0
processZeroStart(a, currentValue, isLearning) ==
    IF a.first
    THEN [a EXCEPT !.m = 0, !.v = 0, !.first = FALSE]
    ELSE
      LET diff == currentValue - a.m
          m2 == a.m + (AlphaNum * diff) \div AlphaDen
          v2 == ((AlphaDen - AlphaNum) * a.v + (AlphaNum * diff * diff) \div Scale)
                   \div AlphaDen
          dev == (CNum * ISqrt(v2 * Scale)) \div CDen
          upd == (~isLearning) \/ (a.windowID >= SpanWindows)
          sh2 == IF upd THEN Max(0, a.SH + (currentValue - m2) - dev) ELSE a.SH
          sl2 == IF upd THEN Max(0, a.SL - (currentValue - m2) - dev) ELSE a.SL
      IN  [a EXCEPT !.m = m2, !.v = v2, !.SH = sh2, !.SL = sl2,
                    !.maxSH = Max(sh2, a.maxSH), !.maxSL = Max(sl2, a.maxSL),
                    !.windowID = a.windowID + 1]

\* AdaptiveCUSUM::process(currentValue, learning); currentValue in 1/Scale
process(a, currentValue, isLearning) ==
    IF a.first
    THEN [a EXCEPT !.m = currentValue, !.v = 0, !.first = FALSE]
    ELSE
      LET diff == currentValue - a.m
          m2 == a.m + (AlphaNum * diff) \div AlphaDen
          v2 == ((AlphaDen - AlphaNum) * a.v + (AlphaNum * diff * diff) \div Scale)
                   \div AlphaDen
          dev == (CNum * ISqrt(v2 * Scale)) \div CDen
          upd == (~isLearning) \/ (a.windowID >= SpanWindows)
          sh2 == IF upd THEN Max(0, a.SH + (currentValue - m2) - dev) ELSE a.SH
          sl2 == IF upd THEN Max(0, a.SL - (currentValue - m2) - dev) ELSE a.SL
      IN  [a EXCEPT !.m = m2, !.v = v2, !.SH = sh2, !.SL = sl2,
                    !.maxSH = Max(sh2, a.maxSH), !.maxSL = Max(sl2, a.maxSL),
                    !.windowID = a.windowID + 1]

\* SH > thresholdHigh * multiplier
isPositiveAnomaly(a, multiplier) ==
    a.thresholdHigh.d > 0 /\ a.SH * a.thresholdHigh.d > a.thresholdHigh.n * multiplier

\* SL > thresholdLow * multiplier
isNegativeAnomaly(a, multiplier) ==
    a.thresholdLow.d > 0 /\ a.SL * a.thresholdLow.d > a.thresholdLow.n * multiplier

---------------------------------------------------------------------------
(* ddosDetector: reversal of a snapshot column *)

\* The loop of reverseAllKeys on column `column` of the snapshot sketch
\* st.dst; st carries the locals prevCnt, maxIP, maxIPBytes, rows and the
\* accumulated resultCell, and for each pass of the loop body the row-0
\* count of the column before and after it, whether it left by break, and
\* the row of the cell it accumulated with the keys of that cell's
\* communicatedWith.
RECURSIVE reverseLoop(_, _)
reverseLoop(st, column) ==
    IF st.prevCnt = st.dst[0][column].count THEN st
    ELSE
      LET cnt == st.dst[0][column].count
          dstAddr == bcvReverseKey(st.dst[0][column].value.reversibleKey)
          onlyPrefix == Prefix24(dstAddr)
          indices == cmsEstimateDst(st.dst, onlyPrefix)
          cell == st.dst[indices[1]][indices[2]]
          bigger == st.maxIPBytes < cell.value.byteCount
          comm == cell.value.communicatedWith
      IN  IF cell.count = 0 \/ ~isProtected(onlyPrefix)
          THEN [st EXCEPT !.prevCnt = cnt,
                          !.iterations = Append(@, [before |-> cnt, after |-> cnt,
                                                    broke |-> TRUE,
                                                    row |-> indices[1],
                                                    comm |-> {}])]
          ELSE reverseLoop(
                 [dst |-> cmsDecDst(st.dst, onlyPrefix, cell),
                  iterations |->
                     Append(st.iterations,
                            [before |-> cnt,
                             after |-> cmsDecDst(st.dst, onlyPrefix, cell)[0][column].count,
                             broke |-> FALSE,
                             row |-> indices[1],
                             comm |-> DOMAIN comm]),
                  prevCnt |-> cnt,
                  maxIP |-> IF bigger THEN onlyPrefix ELSE st.maxIP,
                  maxIPBytes |-> IF bigger THEN cell.value.byteCount
                                 ELSE st.maxIPBytes,
                  rows |-> [k \in (DOMAIN st.rows) \cup (DOMAIN comm) |->
                              IF k \in DOMAIN comm THEN indices[1] ELSE st.rows[k]],
                  resultCell |-> daAdd(st.resultCell, cell.value)],
                 column)

\* reverseSrcIPs that recovers from the cell of every row, not of rows[idx]
reverseSrcIPsEveryRow(communicatedWith, rows, src) ==
    { [idx |-> idx, ip |-> bcvReverseKey(src[r][idx].value),
       flows |-> communicatedWith[idx]] :
         idx \in DOMAIN communicatedWith,
         r \in { o \in Rows : \A k \in DOMAIN communicatedWith :
                                  src[o][k].count # 0 } }

\* reverseSrcIPs: one recovered (address, flows) pair per communicatedWith
\* entry whose source cell and estimate cell are not empty.  The vector is
\* filled in the iteration order of an unordered_map, so it is kept as the
\* set of its entries, each with the source column it came from.
reverseSrcIPs(communicatedWith, rows, src) ==
    LET recovered(idx) == bcvReverseKey(src[rows[idx]][idx].value)
        hit(idx) ==
            LET rc == cmsEstimateSrc(src, recovered(idx))
            IN  /\ src[rows[idx]][idx].count # 0
                /\ src[rc[1]][rc[2]].count # 0
    IN  { [idx |-> idx, ip |-> recovered(idx), flows |-> communicatedWith[idx]] :
            idx \in { k \in DOMAIN communicatedWith : hit(k) } }

\* reverseAllKeys(maxIP, resultCell, dstIPs, srcIPs, column, ...): the
\* snapshot sketch after the decrements, maxIP, resultCell and the reversed
\* sources
reverseAllKeys(dst, src, column) ==
    LET st == reverseLoop([dst |-> dst, prevCnt |-> 0, maxIP |-> 0,
                           maxIPBytes |-> 0, rows |-> EmptyMap,
                           resultCell |-> ddosDetectorValue,
                           iterations |-> <<>>], column)
    IN  [dst |-> st.dst, maxIP |-> st.maxIP, resultCell |-> st.resultCell,
         rows |-> st.rows, iterations |-> st.iterations,
         reversedSrcIPs |->
            IF st.maxIP = 0 THEN {}
            ELSE reverseSrcIPs(st.resultCell.communicatedWith, st.rows, src)]

---------------------------------------------------------------------------
(* ddosDetector: the metrics *)

\* 1000 * log2(n), n = 1 .. 16
Log2Table == <<0, 1000, 1585, 2000, 2322, 2585, 2807, 3000,
               3170, 3322, 3459, 3585, 3700, 3807, 3907, 4000>>

RECURSIVE SumOver(_, _)
SumOver(S, f) ==
    IF S = {} THEN 0
    ELSE LET x == CHOOSE y \in S : TRUE IN f[x] + SumOver(S \ {x}, f)

\* calculateNormalizedEntropy of the counts cnt[k], k in DOMAIN cnt, in
\* units of 1/Scale
calculateNormalizedEntropy(cnt) ==
    LET keys == DOMAIN cnt
        size == Cardinality(keys)
        total == SumOver(keys, cnt)
        terms == [k \in keys |-> cnt[k] * (Log2Table[total] - Log2Table[cnt[k]])]
    IN  IF size < 2 THEN 0
        ELSE ((SumOver(keys, terms) \div total) * Scale) \div Log2Table[size]

\* the 1e-6 added to both entropies, one unit of the fixed point here
EntropyEps == 1

\* computeMetrics: entropy, receivedToSentBytes, receivedToSentFlows, with
\* the byte and packet counts updateMetrics feeds, all in units of 1/Scale
computeMetrics(srcIPsCommWithDst, resultCell) ==
    LET counts == [e \in srcIPsCommWithDst |-> e.flows]
        entropySrcIPs == calculateNormalizedEntropy(counts)
        entropyDstIPs8bits == calculateNormalizedEntropy(resultCell.ipSubnets)
    IN  [bytes |-> resultCell.byteCount * Scale,
         packets |-> resultCell.packetCount * Scale,
         entropy |-> ((entropySrcIPs + EntropyEps) * Scale)
                        \div (entropyDstIPs8bits + EntropyEps),
         bytesRS |-> ((1 + resultCell.byteCount) * Scale)
                        \div (resultCell.sentBytes + 1),
         flowsRS |-> ((1 + resultCell.flowCount) * Scale)
                        \div (resultCell.sentFlows + 1)]

\* updateMetrics without the sample of the entropy tracker
updateMetricsNoEntropy(cs, srcIPsCommWithDst, resultCell, isLearning, column) ==
    LET x == computeMetrics(srcIPsCommWithDst, resultCell)
    IN  [mt \in Metrics |->
           IF mt = "entropy" THEN cs[mt]
           ELSE [cs[mt] EXCEPT ![column] = process(@, x[mt], isLearning)]]

\* updateMetrics: the five vectors after column `column` took its samples
updateMetrics(cs, srcIPsCommWithDst, resultCell, isLearning, column) ==
    LET x == computeMetrics(srcIPsCommWithDst, resultCell)
    IN  [mt \in Metrics |->
           [cs[mt] EXCEPT ![column] = process(@, x[mt], isLearning)]]

---------------------------------------------------------------------------
(* ddosDetector: alerts *)

TopN == 1               \* n_, the source addresses an alert names (default 5)

\* the orders of a sort with the comparison a.second < b.second
SortedByFlowsAscending(entries) ==
    { s \in [1 .. Cardinality(entries) -> entries] :
        /\ \A i, j \in DOMAIN s : i # j => s[i] # s[j]
        /\ \A i, j \in DOMAIN s : i < j => s[i].flows <= s[j].flows }

\* the orders std::sort may leave the vector in: flows descending, ties in
\* any order
SortedByFlows(entries) ==
    { s \in [1 .. Cardinality(entries) -> entries] :
        /\ \A i, j \in DOMAIN s : i # j => s[i] # s[j]
        /\ \A i, j \in DOMAIN s : i < j => s[i].flows >= s[j].flows }

RECURSIVE takeTopN(_, _, _)
takeTopN(s, i, acc) ==
    IF i > Len(s) THEN acc
    ELSE IF isWhitelisted(s[i].ip) THEN takeTopN(s, i + 1, acc)
    ELSE IF Cardinality(acc \cup {s[i].ip}) = TopN THEN acc \cup {s[i].ip}
    ELSE takeTopN(s, i + 1, acc \cup {s[i].ip})

\* getTopNSrcIPs: the sets topNSrcIPs can come out as
getTopNSrcIPs(srcIPsCommWithDst) ==
    { takeTopN(s, 1, {}) : s \in SortedByFlows(srcIPsCommWithDst) }

\* threshold * multiplier
RatTimes(r, k) == Rat(r.n * k, r.d)

\* the dos_alert_t detectAnomaly builds
dosAlert(cs, maxIP, column, srcIPsRes) ==
    [th |-> [mt \in Metrics |->
                RatTimes(cs[mt][column].thresholdHigh, getMultiplier(maxIP))],
     measured |-> [mt \in Metrics |-> cs[mt][column].SH],
     dstIP |-> maxIP, cusumID |-> column, srcIPs |-> srcIPsRes]

\* detectAnomaly with "or" between the five tests
detectAnomalyAny(cs, maxIP, column, srcIPsCommWithDst) ==
    IF \E mt \in Metrics : isPositiveAnomaly(cs[mt][column], getMultiplier(maxIP))
    THEN { dosAlert(cs, maxIP, column, res) :
             res \in getTopNSrcIPs(srcIPsCommWithDst) \ {{}} }
    ELSE {}

\* detectAnomaly: the alerts it may push; empty when it returns false
detectAnomaly(cs, maxIP, column, srcIPsCommWithDst) ==
    IF \A mt \in Metrics : isPositiveAnomaly(cs[mt][column], getMultiplier(maxIP))
    THEN { dosAlert(cs, maxIP, column, res) :
             res \in getTopNSrcIPs(srcIPsCommWithDst) \ {{}} }
    ELSE {}

---------------------------------------------------------------------------
(* ddosDetector: thresholds *)

QuantileNum == 3        \* quantile_ = 0.75
QuantileDen == 4

\* the values of f on the columns 0 .. n-1 that are > 0, sorted ascending
RECURSIVE SortedInsert(_, _)
SortedInsert(s, x) ==
    IF s = <<>> THEN <<x>>
    ELSE IF x <= Head(s) THEN <<x>> \o s
    ELSE <<Head(s)>> \o SortedInsert(Tail(s), x)

RECURSIVE SortedPositive(_, _)
SortedPositive(f, n) ==
    IF n = 0 THEN <<>>
    ELSE IF f[n - 1] > 0 THEN SortedInsert(SortedPositive(f, n - 1), f[n - 1])
    ELSE SortedPositive(f, n - 1)

\* getQuantileSortedVec with the position size * quantile
getQuantileSortedVecSize(sortedVec, qn, qd) ==
    LET index == Len(sortedVec) * qn
        lowerIndex == index \div qd
        upperIndex == lowerIndex + 1
        rem == index % qd
    IN  IF upperIndex >= Len(sortedVec) THEN sortedVec[Len(sortedVec)]
        ELSE (sortedVec[lowerIndex + 1] * (qd - rem)
                + sortedVec[upperIndex + 1] * rem) \div qd

\* getQuantileSortedVec: linear interpolation at (size - 1) * quantile
getQuantileSortedVec(sortedVec, qn, qd) ==
    LET index == (Len(sortedVec) - 1) * qn
        lowerIndex == index \div qd
        upperIndex == lowerIndex + 1
        rem == index % qd
    IN  IF upperIndex >= Len(sortedVec) THEN sortedVec[Len(sortedVec)]
        ELSE (sortedVec[lowerIndex + 1] * (qd - rem)
                + sortedVec[upperIndex + 1] * rem) \div qd

\* getQuantileThresholdHigh reads maxSL, getQuantileThresholdLow reads maxSH
getQuantileThresholdHigh(allCusums) ==
    LET tresholdsLow ==
            SortedPositive([j \in DstCols |-> allCusums[j].maxSL], InnerSizeDstIPs)
    IN  IF tresholdsLow = <<>> THEN 0
        ELSE getQuantileSortedVec(tresholdsLow, QuantileNum, QuantileDen)

getQuantileThresholdLow(allCusums) ==
    LET tresholdsHigh ==
            SortedPositive([j \in DstCols |-> allCusums[j].maxSH], InnerSizeDstIPs)
    IN  IF tresholdsHigh = <<>> THEN 0
        ELSE getQuantileSortedVec(tresholdsHigh, QuantileNum, QuantileDen)

\* setCusumThresholdHigh without the test of the tracker's own maximum
setCusumThresholdHighQuantile(a, quantileTHreshold) ==
    [a EXCEPT !.thresholdHigh = Rat(quantileTHreshold, 1)]

setCusumThresholdHigh(a, quantileTHreshold) ==
    [a EXCEPT !.thresholdHigh =
        IF a.maxSH > 0 THEN Rat(a.maxSH, 1) ELSE Rat(quantileTHreshold, 1)]

setCusumThresholdLow(a, quantileTHreshold) ==
    [a EXCEPT !.thresholdLow =
        IF a.maxSL > 0 THEN Rat(a.maxSL, 1) ELSE Rat(quantileTHreshold, 1)]

\* operator<< on a double keeps PrintDigits significant digits; a value is
\* rounded to the nearest unit of 1/Scale first
PrintDigits == 3

RECURSIVE RoundSig(_, _)
RoundSig(q, unit) ==
    IF q \div unit < 10 ^ PrintDigits THEN ((2 * q + unit) \div (2 * unit)) * unit
    ELSE RoundSig(q, unit * 10)

formatDouble(r) ==
    IF r.d = 0 THEN r
    ELSE Rat(RoundSig((2 * r.n + r.d) \div (2 * r.d), 1), 1)

\* stof on a word of the file
stof(word) == word

FileFields == {"bytes", "packets", "entropy", "entropyLow", "bytesRS", "flowsRS"}

\* updateThresholds: the rows written to thresholds.csv
updateThresholds(cs) ==
    [j \in DstCols |->
       [f \in FileFields |->
          IF f = "entropyLow" THEN formatDouble(cs["entropy"][j].thresholdLow)
          ELSE formatDouble(cs[f][j].thresholdHigh)]]

\* setCusumTresholds: from the file when learningSecs_ is 0, from the
\* learned maxima and their quantile otherwise
setCusumTresholds(cs, secs, file) ==
    IF secs = 0
    THEN [mt \in Metrics |-> [j \in DstCols |->
            IF mt = "entropy"
            THEN [cs[mt][j] EXCEPT !.thresholdHigh = stof(file[j]["entropy"]),
                                   !.thresholdLow = stof(file[j]["entropyLow"])]
            ELSE [cs[mt][j] EXCEPT !.thresholdHigh = stof(file[j][mt])]]]
    ELSE [mt \in Metrics |-> [j \in DstCols |->
            IF mt = "entropy"
            THEN setCusumThresholdLow(
                   setCusumThresholdHigh(cs[mt][j], getQuantileThresholdHigh(cs[mt])),
                   getQuantileThresholdLow(cs[mt]))
            ELSE setCusumThresholdHigh(cs[mt][j], getQuantileThresholdHigh(cs[mt]))]]

\* checkFalsePositives without the division by the multiplier
checkFalsePositivesUndivided(cs, falsePositive) ==
    [mt \in Metrics |->
       [cs[mt] EXCEPT ![falsePositive.cusumID].thresholdHigh =
           Rat(falsePositive.measured[mt], 1)]]

\* checkFalsePositives with the packets line setting cusumBytes again
checkFalsePositivesFour(cs, falsePositive) ==
    [mt \in Metrics |->
       IF mt = "packets" THEN cs[mt]
       ELSE [cs[mt] EXCEPT ![falsePositive.cusumID].thresholdHigh =
               Rat(falsePositive.measured[mt], getMultiplier(falsePositive.dstIP))]]

\* checkFalsePositives on the record popped: measured / multiplier
checkFalsePositives(cs, falsePositive) ==
    [mt \in Metrics |->
       [cs[mt] EXCEPT ![falsePositive.cusumID].thresholdHigh =
           Rat(falsePositive.measured[mt], getMultiplier(falsePositive.dstIP))]]

---------------------------------------------------------------------------
(* The channels between the threads and the time base *)

\* ThreadSafePipe: one slot; write puts the value into the free slot and
\* returns once the reader has taken it, read blocks until a value is there
pipeFree(p) == p = <<>>
pipePut(p, v) == <<v>>
pipeTaken(p) == p = <<>>
pipeReady(p) == p # <<>>
pipeTake(p) == <<>>

\* ThreadSafeQueue: push appends, try_pop takes the oldest element
queuePush(q, x) == Append(q, x)
queueFront(q) == Head(q)
queuePop(q) == Tail(q)

\* TimeManager::update with the time of a flow dt after the last one (flows
\* arrive in time order)
timeUpdate(t, dt) == t + dt

---------------------------------------------------------------------------
(* Times, in units of one window; the epoch is 0 *)

WindowLength == 1           \* window_length_seconds = 5
TimeBetweenAlerts == 1      \* timeBetweenAlertsSecs_, default 300
CheckFalsePositives == 1    \* check_false_positives_seconds = 60
StartTime == 2              \* the time base before the first flow
LearningChoices == {0, 3}   \* learningSecs_ of the runs explored

\* the test with <= for <
isLearningInclusive(t, until) == t <= until

\* learning = currTime < learn_until
isLearning(t, until) == t < until

\* the test without the quiet period added
quietElapsedNoPeriod(lastAlert, t) == lastAlert < t

\* (lastAlert + timeBetweenAlertsSecs_) < currTime
quietElapsed(lastAlert, t) == lastAlert + TimeBetweenAlerts < t

---------------------------------------------------------------------------
(* Inputs *)

netflowRecord(src, dst, b, p) ==
    [srcAddr |-> src, dstAddr |-> dst, bytes |-> b, packets |-> p]

\* flows of the input interface, both to the protected prefix: a small one
\* from a whitelisted source and a large one from another source
Flows == { netflowRecord(2, 1, 1, 1), netflowRecord(12, 1, 3, 2) }

TimeSteps == {0, WindowLength}

\* a record of the feedback interface: the fields main copies
falsePositiveOf(alert) ==
    [measured |-> alert.measured, cusumID |-> alert.cusumID, dstIP |-> alert.dstIP]

CraftedFalsePositives ==
    { [measured |-> [mt \in Metrics |-> 50], cusumID |-> 0, dstIP |-> 1] }

\* thresholds.csv as found at start
ZeroFile == [j \in DstCols |-> [f \in FileFields |-> Rat(0, 1)]]

PipeValue(dst, src, id) == [dstIPs |-> dst, srcIPs |-> src, id |-> id]

NoValue == PipeValue(EmptyDstSketch, EmptySrcSketch, 0)

NoHistory ==
    [nflows |-> 0, inWindow |-> 0, posted |-> 0, processed |-> <<>>,
     dropped |-> <<>>, installs |-> <<>>, alerts |-> <<>>, fpPushed |-> <<>>,
     fpApplied |-> <<>>, snapPending |-> 0, snapApplied |-> 0, skipped |-> 0]

\* no value is operated on outside the runs of the cell operations
NoOperands ==
    [a |-> ddosDetectorValue, b |-> ddosDetectorValue,
     bcv |-> binCountSketchValue(0), inserted |-> EmptyMap, ops |-> 0,
     op |-> "none"]

\* every counter of a value at its largest
FullValue ==
    [sentBytes |-> Pow2(ByteBits) - 1, sentFlows |-> Pow2(CountBits) - 1,
     packetCount |-> Pow2(CountBits) - 1, byteCount |-> Pow2(ByteBits) - 1,
     flowCount |-> Pow2(CountBits) - 1,
     reversibleKey |-> binCountSketchValue(Pow2(CountBits) - 1),
     communicatedWith |-> [k \in {0} |-> Pow2(CountBits) - 1],
     ipSubnets |-> [k \in {0} |-> Pow2(CountBits) - 1]]

ProgramInit ==
    /\ now = StartTime
    /\ pcMain = "recv"
    /\ first = TRUE
    /\ windowID = 0
    /\ currIntervalStart = 0
    /\ falsePositiveCheckStart = 0
    /\ dstIPs = EmptyDstSketch
    /\ srcIPs = EmptySrcSketch
    /\ pipe = <<>>
    /\ stop = FALSE
    /\ pcEngine = "notStarted"
    /\ val = NoValue
    /\ col = 0
    /\ currTime = 0
    /\ learning = TRUE
    /\ thresholdSet = FALSE
    /\ learn_until = 0
    /\ learningSecs \in LearningChoices
    /\ cusum = [mt \in Metrics |-> [j \in DstCols |-> AdaptiveCUSUM]]
    /\ dosAlertsQueue = <<>>
    /\ dosFalsePositivesQueue = <<>>
    /\ thresholdsFile = ZeroFile
    /\ sentAlerts = <<>>
    /\ hist = NoHistory

Init == ProgramInit /\ operands = NoOperands

---------------------------------------------------------------------------
(* main: the ingress loop *)

\* One pass of the loop down to the window test: the record is received,
\* the time base takes its time, the first flow starts the detector thread,
\* a later one is processed once windowID > 1, and the window is closed
\* when its length has passed (by notifyWorker once windowID > 1).
MainReceive(record, dt) ==
    /\ pcMain = "recv"
    /\ now' = timeUpdate(now, dt)
    /\ IF first
       THEN /\ first' = FALSE
            /\ pcEngine' = "init"
            /\ currIntervalStart' = now'
            /\ windowID' = windowID + 1
            /\ pcMain' = "getAlert"
            /\ UNCHANGED sketchVars
            /\ hist' = [hist EXCEPT !.nflows = @ + 1, !.inWindow = 0]
       ELSE /\ UNCHANGED <<first, pcEngine>>
            /\ IF windowID > 1
               THEN LET r == processCurrentFlow(dstIPs, srcIPs, record)
                    IN  dstIPs' = r.dstIPs /\ srcIPs' = r.srcIPs
               ELSE UNCHANGED sketchVars
            /\ IF now' >= currIntervalStart + WindowLength
               THEN IF windowID > 1
                    THEN /\ pcMain' = "notifyWrite"
                         /\ UNCHANGED <<currIntervalStart, windowID>>
                         /\ hist' = [hist EXCEPT !.nflows = @ + 1]
                    ELSE /\ currIntervalStart' = now'
                         /\ windowID' = windowID + 1
                         /\ pcMain' = "getAlert"
                         /\ hist' = [hist EXCEPT !.nflows = @ + 1, !.inWindow = 0]
               ELSE /\ pcMain' = "getAlert"
                    /\ UNCHANGED <<currIntervalStart, windowID>>
                    /\ hist' = [hist EXCEPT !.nflows = @ + 1, !.inWindow = @ + 1]
    /\ UNCHANGED <<falsePositiveCheckStart, pipe, stop, val, col, currTime,
                   learning, thresholdSet, learn_until, learningSecs, cusum,
                   dosAlertsQueue, dosFalsePositivesQueue, thresholdsFile,
                   sentAlerts>>
    /\ UNCHANGED operands

\* the pass with the address tests after the window block
MainReceiveNonIPv4Late ==
    /\ pcMain = "recv"
    /\ hist' = [hist EXCEPT !.skipped = @ + 1]
    /\ first' = FALSE
    /\ currIntervalStart' = now
    /\ windowID' = windowID + 1
    /\ UNCHANGED <<now, pcMain, falsePositiveCheckStart, sketchVars, pipe, stop,
                   engineVars, learningSecs, queueVars, thresholdsFile, sentAlerts>>
    /\ UNCHANGED operands

\* One pass of the loop for a record whose destination or source address
\* is not IPv4: continue, before the time base and the window are touched
MainReceiveNonIPv4 ==
    /\ pcMain = "recv"
    /\ hist' = [hist EXCEPT !.skipped = @ + 1]
    /\ UNCHANGED <<now, mainVars, sketchVars, pipe, stop, engineVars,
                   learningSecs, queueVars, thresholdsFile, sentAlerts>>
    /\ UNCHANGED operands

\* notifyWorker, pipe.write: the snapshot is put into the slot
MainNotifyPost ==
    /\ pcMain = "notifyWrite"
    /\ pipeFree(pipe)
    /\ pipe' = pipePut(pipe, PipeValue(dstIPs, srcIPs, hist.posted + 1))
    /\ hist' = [hist EXCEPT !.posted = @ + 1]
    /\ pcMain' = "notifyWait"
    /\ UNCHANGED <<now, first, windowID, currIntervalStart,
                   falsePositiveCheckStart, sketchVars, stop, engineVars,
                   learningSecs, queueVars, thresholdsFile, sentAlerts>>
    /\ UNCHANGED operands

\* notifyWorker after pipe.write returned (the reader took the snapshot):
\* both sketches are reset and main opens the next window
MainNotifyReturn ==
    /\ pcMain = "notifyWait"
    /\ pipeTaken(pipe)
    /\ dstIPs' = EmptyDstSketch
    /\ srcIPs' = EmptySrcSketch
    /\ currIntervalStart' = now
    /\ windowID' = windowID + 1
    /\ hist' = [hist EXCEPT !.inWindow = 0]
    /\ pcMain' = "getAlert"
    /\ UNCHANGED <<now, first, falsePositiveCheckStart, pipe, stop, engineVars,
                   learningSecs, queueVars, thresholdsFile, sentAlerts>>
    /\ UNCHANGED operands

\* the records the host may send back once it was sent `sent`: an alert
\* it received, or one of its own
HostRecords(sent) ==
    { falsePositiveOf(sent[i]) : i \in DOMAIN sent } \cup CraftedFalsePositives

\* The rest of the pass: detector.getAlert(alert) with the send on the
\* output interface, then the false-positive check: once the check interval
\* has passed, a record of the feedback interface (if one arrives) is pushed.
MainTail(maxRecords) ==
    /\ pcMain = "getAlert"
    /\ IF dosAlertsQueue # <<>>
       THEN /\ sentAlerts' = Append(sentAlerts, queueFront(dosAlertsQueue))
            /\ dosAlertsQueue' = queuePop(dosAlertsQueue)
       ELSE UNCHANGED <<sentAlerts, dosAlertsQueue>>
    /\ IF now > falsePositiveCheckStart + CheckFalsePositives
       THEN /\ falsePositiveCheckStart' = now
            /\ \/ UNCHANGED <<dosFalsePositivesQueue, hist>>
               \/ /\ Len(hist.fpPushed) < maxRecords
                  /\ \E h \in HostRecords(sentAlerts') :
                       /\ dosFalsePositivesQueue' = queuePush(dosFalsePositivesQueue, h)
                       /\ hist' = [hist EXCEPT !.fpPushed = Append(@, h)]
       ELSE UNCHANGED <<falsePositiveCheckStart, dosFalsePositivesQueue, hist>>
    /\ pcMain' = "recv"
    /\ UNCHANGED <<now, first, windowID, currIntervalStart, sketchVars, pipe,
                   stop, engineVars, learningSecs, thresholdsFile>>
    /\ UNCHANGED operands

---------------------------------------------------------------------------
(* ~ddosDetector *)

\* the loop of main ends (stop signal or end of data), main returns and
\* the destructor sets the flag
DtorSetStop ==
    /\ pcMain = "recv"
    /\ stop' = TRUE
    /\ pcMain' = "dtorWrite"
    /\ UNCHANGED <<now, first, windowID, currIntervalStart,
                   falsePositiveCheckStart, sketchVars, pipe, engineVars,
                   learningSecs, queueVars, thresholdsFile, sentAlerts, hist>>
    /\ UNCHANGED operands

DtorWritePost ==
    /\ pcMain = "dtorWrite"
    /\ pipeFree(pipe)
    /\ pipe' = pipePut(pipe, PipeValue(dstIPs, srcIPs, 0))
    /\ pcMain' = "dtorWait"
    /\ UNCHANGED <<now, first, windowID, currIntervalStart,
                   falsePositiveCheckStart, sketchVars, stop, engineVars,
                   learningSecs, queueVars, thresholdsFile, sentAlerts, hist>>
    /\ UNCHANGED operands

DtorWriteReturn ==
    /\ pcMain = "dtorWait"
    /\ pipeTaken(pipe)
    /\ pcMain' = "dtorJoin"
    /\ UNCHANGED <<now, first, windowID, currIntervalStart,
                   falsePositiveCheckStart, sketchVars, pipe, stop, engineVars,
                   learningSecs, queueVars, thresholdsFile, sentAlerts, hist>>
    /\ UNCHANGED operands

\* if (detectorThread.joinable()) detectorThread.join()
DtorJoin ==
    /\ pcMain = "dtorJoin"
    /\ pcEngine \in {"notStarted", "returned"}
    /\ pcMain' = "done"
    /\ UNCHANGED <<now, first, windowID, currIntervalStart,
                   falsePositiveCheckStart, sketchVars, pipe, stop, engineVars,
                   learningSecs, queueVars, thresholdsFile, sentAlerts, hist>>
    /\ UNCHANGED operands

---------------------------------------------------------------------------
(* detectionProcess: the detector thread *)

mainState == <<now, pcMain, first, windowID, currIntervalStart,
               falsePositiveCheckStart, dstIPs, srcIPs, stop, learningSecs,
               sentAlerts, operands>>

\* the head of detectionProcess
EngineInit ==
    /\ pcEngine = "init"
    /\ learn_until' = now + learningSecs
    /\ pcEngine' = "read"
    /\ UNCHANGED <<mainState, pipe, val, col, currTime, learning, thresholdSet,
                   cusum, queueVars, thresholdsFile, hist>>

\* PipeValue val = pipe.read()
EngineRead ==
    /\ pcEngine = "read"
    /\ pipeReady(pipe)
    /\ val' = Head(pipe)
    /\ pipe' = pipeTake(pipe)
    /\ pcEngine' = "stopTest"
    /\ hist' = [hist EXCEPT !.snapPending = Len(dosFalsePositivesQueue),
                            !.snapApplied = 0]
    /\ UNCHANGED <<mainState, col, currTime, learning, thresholdSet,
                   learn_until, cusum, queueVars, thresholdsFile>>

\* the stop test, and on a snapshot to process the time, the learning flag
\* and the installation of the thresholds
EngineStopTest ==
    /\ pcEngine = "stopTest"
    /\ IF stop
       THEN /\ thresholdsFile' = updateThresholds(cusum)
            /\ pcEngine' = "returned"
            /\ val' = NoValue
            /\ hist' = [hist EXCEPT !.dropped =
                          IF val.id = 0 THEN @ ELSE Append(@, val.id)]
            /\ UNCHANGED <<currTime, learning, thresholdSet, cusum>>
       ELSE /\ currTime' = now
            /\ learning' = isLearning(now, learn_until)
            /\ IF ~thresholdSet /\ ~learning'
               THEN /\ cusum' = setCusumTresholds(cusum, learningSecs, thresholdsFile)
                    /\ thresholdSet' = TRUE
                    /\ hist' = [hist EXCEPT
                                  !.processed = Append(@, [id |-> val.id, early |-> now < learn_until,
                                                           learning |-> learning']),
                                  !.installs = Append(@, val.id)]
               ELSE /\ UNCHANGED <<cusum, thresholdSet>>
                    /\ hist' = [hist EXCEPT
                                  !.processed = Append(@, [id |-> val.id, early |-> now < learn_until,
                                                           learning |-> learning'])]
            /\ pcEngine' = "fp"
            /\ UNCHANGED <<val, thresholdsFile>>
    /\ UNCHANGED <<mainState, pipe, col, learn_until, queueVars>>

RECURSIVE applyAll(_, _)
applyAll(cs, q) ==
    IF q = <<>> THEN cs
    ELSE applyAll(checkFalsePositives(cs, queueFront(q)), queuePop(q))

\* the step with a loop that empties the queue
EngineCheckFPDrain ==
    /\ pcEngine = "fp"
    /\ IF thresholdSet /\ dosFalsePositivesQueue # <<>>
       THEN /\ cusum' = applyAll(cusum, dosFalsePositivesQueue)
            /\ dosFalsePositivesQueue' = <<>>
            /\ hist' = [hist EXCEPT
                          !.fpApplied = @ \o [i \in DOMAIN dosFalsePositivesQueue |->
                                                [record |-> dosFalsePositivesQueue[i],
                                                 snapshot |-> val.id]],
                          !.snapApplied = @ + Len(dosFalsePositivesQueue)]
       ELSE UNCHANGED <<cusum, dosFalsePositivesQueue, hist>>
    /\ col' = 0
    /\ pcEngine' = "scan"
    /\ UNCHANGED <<mainState, pipe, val, currTime, learning, thresholdSet,
                   learn_until, dosAlertsQueue, thresholdsFile>>

\* if (thresholdSet) checkFalsePositives(), and j = 0
EngineCheckFP ==
    /\ pcEngine = "fp"
    /\ IF thresholdSet /\ dosFalsePositivesQueue # <<>>
       THEN /\ cusum' = checkFalsePositives(cusum, queueFront(dosFalsePositivesQueue))
            /\ dosFalsePositivesQueue' = queuePop(dosFalsePositivesQueue)
            /\ hist' = [hist EXCEPT
                          !.fpApplied = Append(@, [record |-> queueFront(dosFalsePositivesQueue),
                                                  snapshot |-> val.id]),
                          !.snapApplied = @ + 1]
       ELSE UNCHANGED <<cusum, dosFalsePositivesQueue, hist>>
    /\ col' = 0
    /\ pcEngine' = "scan"
    /\ UNCHANGED <<mainState, pipe, val, currTime, learning, thresholdSet,
                   learn_until, dosAlertsQueue, thresholdsFile>>

\* the scan of a column with the alert pushed twice
EngineScanTwice ==
    /\ pcEngine = "scan"
    /\ LET r == reverseAllKeys(val.dstIPs, val.srcIPs, col)
           scanned == val.dstIPs[0][col].count # 0
           fed == scanned /\ r.maxIP # 0
           cs == updateMetrics(cusum, r.reversedSrcIPs, r.resultCell, learning, col)
           tried == fed /\ thresholdSet
                        /\ quietElapsed(cusum["bytes"][col].lastAlert, currTime)
           alerts == IF tried THEN detectAnomaly(cs, r.maxIP, col, r.reversedSrcIPs)
                     ELSE {}
           last == col + 1 = InnerSizeDstIPs
       IN  /\ IF alerts # {}
              THEN \E a \in alerts :
                     /\ dosAlertsQueue' = queuePush(queuePush(dosAlertsQueue, a), a)
                     /\ cusum' = [cs EXCEPT !["bytes"][col].lastAlert = currTime]
                     /\ hist' = [hist EXCEPT !.alerts =
                                   Append(@, [alert |-> a, time |-> currTime,
                                              snapshot |-> val.id])]
              ELSE /\ cusum' = IF fed THEN cs ELSE cusum
                   /\ UNCHANGED <<dosAlertsQueue, hist>>
           /\ val' = IF last THEN NoValue
                     ELSE IF scanned THEN [val EXCEPT !.dstIPs = r.dst]
                     ELSE val
           /\ col' = IF last THEN 0 ELSE col + 1
           /\ pcEngine' = IF last THEN "read" ELSE "scan"
    /\ UNCHANGED <<mainState, pipe, currTime, learning, thresholdSet,
                   learn_until, dosFalsePositivesQueue, thresholdsFile>>

\* the loop body for column j = col
EngineScan ==
    /\ pcEngine = "scan"
    /\ LET r == reverseAllKeys(val.dstIPs, val.srcIPs, col)
           scanned == val.dstIPs[0][col].count # 0
           fed == scanned /\ r.maxIP # 0
           cs == updateMetrics(cusum, r.reversedSrcIPs, r.resultCell, learning, col)
           tried == fed /\ thresholdSet
                        /\ quietElapsed(cusum["bytes"][col].lastAlert, currTime)
           alerts == IF tried THEN detectAnomaly(cs, r.maxIP, col, r.reversedSrcIPs)
                     ELSE {}
           last == col + 1 = InnerSizeDstIPs
       IN  /\ IF alerts # {}
              THEN \E a \in alerts :
                     /\ dosAlertsQueue' = queuePush(dosAlertsQueue, a)
                     /\ cusum' = [cs EXCEPT !["bytes"][col].lastAlert = currTime]
                     /\ hist' = [hist EXCEPT !.alerts =
                                   Append(@, [alert |-> a, time |-> currTime,
                                              snapshot |-> val.id])]
              ELSE /\ cusum' = IF fed THEN cs ELSE cusum
                   /\ UNCHANGED <<dosAlertsQueue, hist>>
           /\ val' = IF last THEN NoValue
                     ELSE IF scanned THEN [val EXCEPT !.dstIPs = r.dst]
                     ELSE val
           /\ col' = IF last THEN 0 ELSE col + 1
           /\ pcEngine' = IF last THEN "read" ELSE "scan"
    /\ UNCHANGED <<mainState, pipe, currTime, learning, thresholdSet,
                   learn_until, dosFalsePositivesQueue, thresholdsFile>>

---------------------------------------------------------------------------
\* Every run: any flows of Flows, up to MaxFlows in a window and MaxWindows
\* snapshots, feedback, and the end of main at any pass of its loop.
Next ==
    \/ \E record \in Flows, dt \in TimeSteps :
         /\ hist.posted < MaxWindows
         /\ hist.inWindow + 1 < MaxFlows \/ dt = WindowLength
         /\ MainReceive(record, dt)
    \/ MainNotifyPost
    \/ MainNotifyReturn
    \/ MainTail(MaxFalsePositives)
    \/ DtorSetStop
    \/ DtorWritePost
    \/ DtorWriteReturn
    \/ DtorJoin
    \/ EngineInit
    \/ EngineRead
    \/ EngineStopTest
    \/ EngineCheckFP
    \/ EngineScan

Spec == Init /\ [][Next]_vars

\* Detection runs: thresholds from the file, more windows, each a closing
\* flow of Flows with or without a quiet flow before it, no feedback, main
\* keeps running.
DetectWindows == 4

InitDetect == Init /\ learningSecs = 0

NextDetect ==
    \/ \E record \in Flows, dt \in TimeSteps :
         /\ hist.posted < DetectWindows
         /\ hist.inWindow + 1 < MaxFlows \/ dt = WindowLength
         /\ dt = 0 => record = netflowRecord(2, 1, 1, 1)
         /\ MainReceive(record, dt)
    \/ MainNotifyPost
    \/ MainNotifyReturn
    \/ MainTail(0)
    \/ EngineInit
    \/ EngineRead
    \/ EngineStopTest
    \/ EngineCheckFP
    \/ EngineScan

SpecDetect == InitDetect /\ [][NextDetect]_vars

\* The replay: a quiet window and an attack window, two windows of flows
\* that touch no protected address, then the same two windows again.
Quiet == netflowRecord(2, 1, 1, 1)
Attack == netflowRecord(12, 1, 3, 2)
Other == netflowRecord(4, 5, 1, 1)

ReplayedWindows == <<[record |-> Quiet, dt |-> WindowLength],
                     [record |-> Quiet, dt |-> 0],
                     [record |-> Attack, dt |-> WindowLength]>>

ReplayScript ==
    <<[record |-> Quiet, dt |-> 0], [record |-> Quiet, dt |-> WindowLength]>>
    \o ReplayedWindows
    \o <<[record |-> Other, dt |-> WindowLength],
         [record |-> Other, dt |-> WindowLength]>>
    \o ReplayedWindows

NextReplay ==
    \/ /\ hist.nflows < Len(ReplayScript)
       /\ MainReceive(ReplayScript[hist.nflows + 1].record,
                      ReplayScript[hist.nflows + 1].dt)
    \/ MainNotifyPost
    \/ MainNotifyReturn
    \/ MainTail(MaxFalsePositives)
    \/ EngineInit
    \/ EngineRead
    \/ EngineStopTest
    \/ EngineCheckFP
    \/ EngineScan

SpecReplay == InitDetect /\ [][NextReplay]_vars

---------------------------------------------------------------------------
(* Properties *)

\* the step pushed an alert
AlertPushed == Len(dosAlertsQueue') > Len(dosAlertsQueue)

PushedAlert == dosAlertsQueue'[Len(dosAlertsQueue')]

\* sh > th * mult, th the rational n/d
Exceeds(sh, th, mult) == th.d > 0 /\ sh * th.d > th.n * mult

\* the address is in no prefix of the whitelist or of the protected subnets
OffWhitelist(ip) ==
    \A e \in WhitelistedPrefixes \cup ProtectedPrefixes : ~Matches(ip, e)

\* the multiplier of the longest protected prefix of ip, 0 if none
MultOf(ip) ==
    LET hits == { e \in ProtectedPrefixes : Matches(ip, e) }
    IN  IF hits = {} THEN 0
        ELSE (CHOOSE e \in hits : \A o \in hits : o.len <= e.len).mult

\* C1: an alert is enqueued only by the scan of a column j of a snapshot,
\* and then thresholds are installed, each of the five ACUs of column j has
\* SH > thH * mult(reported dstIP), currTime - lastAlert[j] > T_quiet, and
\* the alert names at least one source, each of them reversed for the
\* column and not whitelisted.
C1_AlertOnlyIf ==
    [][AlertPushed =>
         /\ pcEngine = "scan"
         /\ Len(dosAlertsQueue') = Len(dosAlertsQueue) + 1
         /\ PushedAlert.cusumID = col
         /\ thresholdSet
         /\ \A mt \in Metrics :
              Exceeds(cusum'[mt][col].SH, cusum'[mt][col].thresholdHigh,
                      MultOf(PushedAlert.dstIP))
         /\ currTime - cusum["bytes"][col].lastAlert > TimeBetweenAlerts
         /\ PushedAlert.srcIPs # {}
         /\ \A ip \in PushedAlert.srcIPs :
              /\ OffWhitelist(ip)
              /\ \E e \in reverseAllKeys(val.dstIPs, val.srcIPs, col).reversedSrcIPs :
                   e.ip = ip
    ]_vars

\* an alert is in the queue, pushed after the thresholds were installed
C1_Witness ==
    /\ dosAlertsQueue # <<>>
    /\ thresholdSet
    /\ \E i \in DOMAIN hist.alerts : hist.alerts[i].alert = Head(dosAlertsQueue)

\* C2: when an alert for column j is enqueued, every earlier alert of
\* column j lies more than T_quiet before it on the engine's time base, and
\* lastAlert[j] changes only in a step that enqueues an alert for column j
\* (it then becomes the time of that alert).
C2_QuietPeriod ==
    [][/\ AlertPushed =>
            \A i \in DOMAIN hist.alerts :
               hist.alerts[i].alert.cusumID = PushedAlert.cusumID
                  => currTime - hist.alerts[i].time > TimeBetweenAlerts
       /\ \A j \in DstCols :
            cusum'["bytes"][j].lastAlert # cusum["bytes"][j].lastAlert
               => /\ AlertPushed
                  /\ PushedAlert.cusumID = j
                  /\ cusum'["bytes"][j].lastAlert = currTime
    ]_vars

\* two alerts of the same column were enqueued
C2_Witness ==
    \E i, k \in DOMAIN hist.alerts :
        /\ i < k
        /\ hist.alerts[i].alert.cusumID = hist.alerts[k].alert.cusumID

\* C3: the snapshots notifyWorker posted are processed once each and in
\* the order posted, and when the engine has returned every posted snapshot
\* has been processed.
C3_EverySnapshotProcessed ==
    /\ \A i \in DOMAIN hist.processed : hist.processed[i].id = i
    /\ Len(hist.processed) <= hist.posted
    /\ pcEngine = "returned" => Len(hist.processed) = hist.posted

\* C4: once the destructor has set the stop flag the shutdown goes on until
\* main is through the join: some step is possible in every state before.
C4_ShutdownCompletes ==
    stop => (pcMain = "done" \/ ENABLED Next)

\* the snapshots the engine has begun to process
Processed == { hist.processed[i] : i \in DOMAIN hist.processed }

\* a step changed a threshold of some ACU
ThresholdsChanged ==
    \E mt \in Metrics, j \in DstCols :
        \/ cusum'[mt][j].thresholdHigh # cusum[mt][j].thresholdHigh
        \/ cusum'[mt][j].thresholdLow # cusum[mt][j].thresholdLow

\* C5: thresholdSet turns true once, in the step that begins the first
\* snapshot whose time is >= learn_until, before a false-positive record was
\* applied and before a column of it is scanned; afterwards thresholds
\* change only when a false-positive record is applied; and the learning
\* flag the ACUs get is true for the snapshots before that one and false
\* from it on.
C5_InstalledOnce ==
    /\ [][/\ thresholdSet => thresholdSet'
          /\ thresholdSet' # thresholdSet =>
               /\ pcEngine = "stopTest" /\ pcEngine' = "fp"
               /\ currTime' >= learn_until
               /\ \A q \in Processed : q.early
               /\ hist.fpApplied = <<>> /\ hist'.fpApplied = <<>>
          /\ ThresholdsChanged =>
               \/ thresholdSet' # thresholdSet
               \/ pcEngine = "fp" /\ thresholdSet /\ dosFalsePositivesQueue # <<>>
         ]_vars
    /\ [](/\ Len(hist.installs) <= 1
          /\ \A q \in Processed :
               /\ ~q.early => thresholdSet
               /\ q.learning <=> (\A i \in DOMAIN hist.installs :
                                     q.id < hist.installs[i])
          /\ pcEngine \in {"fp", "scan"} =>
               /\ learning <=> ~thresholdSet
               /\ learning <=> currTime < learn_until)

\* thresholds were installed by a snapshot after one processed in learning
C5_Witness ==
    /\ thresholdSet
    /\ pcEngine = "scan"
    /\ ~learning
    /\ \E q \in Processed : q.learning

\* The ingress alone: two flows open the second window, then flows of
\* every kind are processed in it: to a protected address, from one, both,
\* neither.
MaxFlowSteps == 4
MaxSkipped == 1

FlowMenu ==
    { netflowRecord(12, 1, 3, 2), netflowRecord(2, 9, 1, 1),
      netflowRecord(1, 4, 2, 1), netflowRecord(9, 10, 1, 1),
      netflowRecord(4, 5, 1, 1) }

NextFlow ==
    \/ \E record \in FlowMenu :
         /\ hist.nflows < 2 + MaxFlowSteps
         /\ MainReceive(record, IF hist.nflows = 1 THEN WindowLength ELSE 0)
    \/ hist.skipped < MaxSkipped /\ MainReceiveNonIPv4
    \/ MainTail(0)
    \/ EngineInit

SpecFlow == InitDetect /\ [][NextFlow]_vars

\* The operations of the cell values alone: two ddosDetectorValue a and
\* b and one binCountSketchValue, all zero at first, take updates, a += b
\* and a -= b in any order; inserted keeps the weight each key was given.
MaxValueOps == 4

ValueRecords == { netflowRecord(2, 1, 1, 1), netflowRecord(12, 9, 3, 2) }
ValueKeys == {1, 6, 9}
ValueWeights == {1, 2}

programVars ==
    <<now, pcMain, first, windowID, currIntervalStart, falsePositiveCheckStart,
      dstIPs, srcIPs, pipe, stop, pcEngine, val, col, currTime, learning,
      thresholdSet, learn_until, learningSecs, cusum, dosAlertsQueue,
      dosFalsePositivesQueue, thresholdsFile, sentAlerts, hist>>

ValueUpdate(x, record) ==
    /\ operands.ops < MaxValueOps
    /\ operands' = [operands EXCEPT
                      ![x] = daUpdate(@, Prefix24(record.dstAddr), record),
                      !.ops = @ + 1, !.op = "update"]
    /\ UNCHANGED programVars

ValueUpdateSentBytes(x, bytes) ==
    /\ operands.ops < MaxValueOps
    /\ operands' = [operands EXCEPT ![x] = updateSentBytes(@, bytes),
                                    !.ops = @ + 1, !.op = "update"]
    /\ UNCHANGED programVars

ValueUpdateFlowCounter(x, index) ==
    /\ operands.ops < MaxValueOps
    /\ operands' = [operands EXCEPT ![x] = updateFlowCounter(@, index),
                                    !.ops = @ + 1, !.op = "update"]
    /\ UNCHANGED programVars

ValueAdd ==
    /\ operands.ops < MaxValueOps
    /\ operands' = [operands EXCEPT !.a = daAdd(operands.a, operands.b),
                                    !.ops = @ + 1, !.op = "add"]
    /\ UNCHANGED programVars

ValueSub ==
    /\ operands.ops < MaxValueOps
    /\ operands' = [operands EXCEPT !.a = daSub(operands.a, operands.b),
                                    !.ops = @ + 1, !.op = "sub"]
    /\ UNCHANGED programVars

BcvUpdate(key, value) ==
    /\ operands.ops < MaxValueOps
    /\ operands' = [operands EXCEPT
                      !.bcv = bcvUpdate(@, key, value),
                      !.inserted = [k \in (DOMAIN @) \cup {key} |->
                                      IF k = key THEN MapGet(@, k) + value
                                      ELSE @[k]],
                      !.ops = @ + 1, !.op = "bcv"]
    /\ UNCHANGED programVars

NextValues ==
    \/ \E x \in {"a", "b"}, record \in ValueRecords : ValueUpdate(x, record)
    \/ \E x \in {"a", "b"}, record \in ValueRecords :
          ValueUpdateSentBytes(x, record.bytes)
    \/ \E x \in {"a", "b"}, index \in SrcCols : ValueUpdateFlowCounter(x, index)
    \/ ValueAdd
    \/ ValueSub
    \/ \E key \in ValueKeys, value \in ValueWeights : BcvUpdate(key, value)

SpecValues == InitDetect /\ [][NextValues]_vars

\* The same operations on values whose counters are at their largest
InitFull ==
    /\ ProgramInit
    /\ learningSecs = 0
    /\ operands \in { [NoOperands EXCEPT !.a = va, !.b = vb,
                                         !.bcv = va.reversibleKey] :
                         va \in {FullValue}, vb \in {ddosDetectorValue, FullValue} }

SpecFull == InitFull /\ [][NextValues]_vars

\* One snapshot of flows to the protected addresses, 1 and 9 of the prefix
\* of length 3 and the single address 10, scanned by the detector thread.
MaxDrainFlows == 3
MaxDrainWindows == 1

DrainFlows ==
    { netflowRecord(2, 1, 1, 1), netflowRecord(12, 9, 3, 2),
      netflowRecord(4, 10, 2, 1) }

NextDrain ==
    \/ \E record \in DrainFlows, dt \in TimeSteps :
         /\ hist.posted < MaxDrainWindows
         /\ hist.inWindow + 1 < MaxDrainFlows \/ dt = WindowLength
         /\ MainReceive(record, dt)
    \/ MainNotifyPost
    \/ MainNotifyReturn
    \/ MainTail(0)
    \/ EngineInit
    \/ EngineRead
    \/ EngineStopTest
    \/ EngineCheckFP
    \/ EngineScan

SpecDrain == InitDetect /\ [][NextDrain]_vars

\* the step applied the oldest false-positive record
RecordApplied ==
    /\ pcEngine = "fp" /\ pcEngine' = "scan"
    /\ Len(dosFalsePositivesQueue') < Len(dosFalsePositivesQueue)

AppliedRecord == Head(dosFalsePositivesQueue)

\* th = m / mult; a zero multiplier leaves no finite threshold
IsQuotient(th, m, mult) ==
    IF mult = 0 THEN th.d = 0 ELSE th.d # 0 /\ th.n * mult = m * th.d

\* C6: when the engine applies a record with measurements M, column j and
\* destination D, afterwards the high threshold of each of the five ACUs of
\* column j is its M / mult(D), and no threshold of another column changed.
C6_ThresholdIsQuotient ==
    [][RecordApplied =>
         /\ \A mt \in Metrics :
              IsQuotient(cusum'[mt][AppliedRecord.cusumID].thresholdHigh,
                         AppliedRecord.measured[mt], MultOf(AppliedRecord.dstIP))
         /\ \A mt \in Metrics, j \in DstCols \ {AppliedRecord.cusumID} :
              /\ cusum'[mt][j].thresholdHigh = cusum[mt][j].thresholdHigh
              /\ cusum'[mt][j].thresholdLow = cusum[mt][j].thresholdLow
    ]_vars

\* a record was applied to a column while the other column keeps the
\* thresholds of the file
C6_Witness ==
    /\ pcEngine = "scan"
    /\ hist.snapApplied = 1
    /\ \E j \in DstCols :
         /\ cusum["bytes"][j].thresholdHigh = Rat(50, 2)
         /\ \A k \in DstCols \ {j} : cusum["bytes"][k].thresholdHigh = Rat(0, 1)

\* the first snapshot of the second pass of the replayed windows
FirstReplayed ==
    Cardinality({ i \in 1 .. Len(ReplayScript) - Len(ReplayedWindows) :
                    ReplayScript[i].dt = WindowLength })

\* C7: once an alert of column j was sent back and applied, the replay of
\* the same windows brings no alert of column j.
C7_NoSecondAlert ==
    \A i, k \in DOMAIN hist.alerts, f \in DOMAIN hist.fpApplied :
        ~ /\ hist.alerts[i].snapshot < FirstReplayed
          /\ hist.fpApplied[f].record = falsePositiveOf(hist.alerts[i].alert)
          /\ hist.fpApplied[f].snapshot < FirstReplayed
          /\ hist.alerts[k].snapshot >= FirstReplayed
          /\ hist.alerts[k].alert.cusumID = hist.alerts[i].alert.cusumID

\* the alerts enqueued so far
Emitted == { hist.alerts[i].alert : i \in DOMAIN hist.alerts }

\* the record is an alert of the engine, and its column still has the
\* thresholds the alert was emitted with
OwnAlertApplied ==
    /\ RecordApplied
    /\ \E a \in Emitted :
         /\ falsePositiveOf(a) = AppliedRecord
         /\ \A mt \in Metrics :
              a.th[mt] = RatTimes(cusum[mt][a.cusumID].thresholdHigh,
                                  MultOf(a.dstIP))

\* C8 as stated: applying a record lowers the five thresholds of its
\* column, none is greater afterwards than before.
C8_Lowered ==
    [][RecordApplied =>
         \A mt \in Metrics :
            ~RatLess(cusum[mt][AppliedRecord.cusumID].thresholdHigh,
                     cusum'[mt][AppliedRecord.cusumID].thresholdHigh)
    ]_vars

\* C8 amended: applying a record that is an alert the engine emitted with
\* the thresholds its column still has raises the five thresholds, each is
\* greater afterwards than before.
C8_OwnAlertRaises ==
    [][OwnAlertApplied =>
         \A mt \in Metrics :
            RatLess(cusum[mt][AppliedRecord.cusumID].thresholdHigh,
                    cusum'[mt][AppliedRecord.cusumID].thresholdHigh)
    ]_vars

\* an alert of the engine came back and was applied
C8_Witness ==
    \E f \in DOMAIN hist.fpApplied, a \in Emitted :
        /\ hist.fpApplied[f].record = falsePositiveOf(a)
        /\ cusum["bytes"][a.cusumID].thresholdHigh =
              Rat(a.measured["bytes"], MultOf(a.dstIP))
        /\ a.measured["bytes"] > 0

\* the records applied so far, in the order applied
RECURSIVE AppliedRecords(_)
AppliedRecords(n) ==
    IF n = 0 THEN <<>>
    ELSE Append(AppliedRecords(n - 1), hist.fpApplied[n].record)

\* C9 as stated: when the scan of a snapshot starts, every record pushed
\* before the engine took the snapshot has been applied.
C9_AppliedByNextScan ==
    pcEngine = "scan" => hist.snapApplied >= hist.snapPending

\* C9 amended: the records applied followed by the records queued are the
\* records pushed, in push order; at most one record is applied per
\* snapshot; and when the scan of a snapshot starts with thresholds
\* installed, the oldest record queued when the engine took the snapshot has
\* been applied.
C9_OnePerSnapshotInOrder ==
    /\ AppliedRecords(Len(hist.fpApplied)) \o dosFalsePositivesQueue = hist.fpPushed
    /\ hist.snapApplied <= 1
    /\ \A i, k \in DOMAIN hist.fpApplied :
         i < k => hist.fpApplied[i].snapshot < hist.fpApplied[k].snapshot
    /\ (pcEngine = "scan" /\ thresholdSet /\ hist.snapPending > 0)
          => hist.snapApplied = 1

\* two records were queued when the engine took a snapshot, one is applied
\* and the other waits during the scan
C9_Witness ==
    /\ pcEngine = "scan"
    /\ hist.snapPending = 2
    /\ hist.snapApplied = 1
    /\ dosFalsePositivesQueue # <<>>

\* main processes the record in this step
Processes(record) == ~first /\ windowID > 1 /\ MainReceive(record, 0)

DstCell(sk, ip, i) == sk[i][getColDst(Prefix24(ip), i)].value

SrcCell(sk, ip, i) == sk[i][getColSrc(ip, i)]

\* no cell of the destination sketch changed in the fields named
SameSent ==
    \A i \in Rows, c \in DstCols :
        /\ dstIPs'[i][c].value.sentBytes = dstIPs[i][c].value.sentBytes
        /\ dstIPs'[i][c].value.sentFlows = dstIPs[i][c].value.sentFlows

SameReceived ==
    \A i \in Rows, c \in DstCols :
        /\ dstIPs'[i][c].value.byteCount = dstIPs[i][c].value.byteCount
        /\ dstIPs'[i][c].value.packetCount = dstIPs[i][c].value.packetCount
        /\ dstIPs'[i][c].value.flowCount = dstIPs[i][c].value.flowCount
        /\ dstIPs'[i][c].value.communicatedWith = dstIPs[i][c].value.communicatedWith

FlowEffect(r) ==
    IF isProtected(r.dstAddr)
    THEN /\ \A i \in Rows :
              /\ DstCell(dstIPs', r.dstAddr, i).byteCount =
                    DstCell(dstIPs, r.dstAddr, i).byteCount + r.bytes
              /\ DstCell(dstIPs', r.dstAddr, i).packetCount =
                    DstCell(dstIPs, r.dstAddr, i).packetCount + r.packets
              /\ DstCell(dstIPs', r.dstAddr, i).flowCount =
                    DstCell(dstIPs, r.dstAddr, i).flowCount + 1
              /\ MapGet(DstCell(dstIPs', r.dstAddr, i).communicatedWith,
                        getColSrc(r.srcAddr, i)) =
                    MapGet(DstCell(dstIPs, r.dstAddr, i).communicatedWith,
                           getColSrc(r.srcAddr, i)) + 1
              /\ SrcCell(srcIPs', r.srcAddr, i).count =
                    SrcCell(srcIPs, r.srcAddr, i).count + 1
              /\ SrcCell(srcIPs', r.srcAddr, i).value.totalCount =
                    SrcCell(srcIPs, r.srcAddr, i).value.totalCount + 1
         /\ SameSent
    ELSE IF isProtected(r.srcAddr)
    THEN /\ \A i \in Rows :
              /\ DstCell(dstIPs', r.srcAddr, i).sentBytes =
                    DstCell(dstIPs, r.srcAddr, i).sentBytes + r.bytes
              /\ DstCell(dstIPs', r.srcAddr, i).sentFlows =
                    DstCell(dstIPs, r.srcAddr, i).sentFlows + 1
         /\ SameReceived
    ELSE dstIPs' = dstIPs /\ srcIPs' = srcIPs

\* C10: a flow to a protected destination adds its bytes, packets and one
\* flow to the destination cell of dst/24 on every row, adds 1 to that
\* cell's commWith entry of the source's column, and inserts (src, 1) into
\* the source sketch; otherwise a flow from a protected source adds its
\* bytes to sentBytes and 1 to sentFlows of the cells of src/24; otherwise
\* no sketch changes.  A flow between two protected addresses takes the
\* first branch only: no sentBytes or sentFlows changes.
C10_BranchPriority ==
    [][\A r \in FlowMenu : Processes(r) => FlowEffect(r)]_vars

\* flows of the three kinds that change a sketch were processed, one of
\* them between two protected addresses
C10_Witness ==
    /\ DstCell(dstIPs, 10, 0).flowCount > 0
    /\ MapGet(DstCell(dstIPs, 10, 0).communicatedWith, getColSrc(9, 0)) > 0
    /\ \E i \in Rows, c \in DstCols : dstIPs[i][c].value.sentFlows > 0
    /\ \E i \in Rows, c \in SrcCols : srcIPs[i][c].count > 1

\* C11: a flow from a protected source to a destination that is not
\* protected changes sentBytes and sentFlows of the destination cells of
\* src/24 and nothing else: no other field of the destination sketch, and
\* no cell of the source sketch.
C11_OnlySentFields ==
    [][\A r \in FlowMenu :
          (Processes(r) /\ ~isProtected(r.dstAddr) /\ isProtected(r.srcAddr)) =>
             /\ srcIPs' = srcIPs
             /\ \A i \in Rows, c \in DstCols :
                  dstIPs'[i][c] =
                     IF c = getColDst(Prefix24(r.srcAddr), i)
                     THEN [dstIPs[i][c] EXCEPT
                             !.value.sentBytes = @ + r.bytes,
                             !.value.sentFlows = @ + 1]
                     ELSE dstIPs[i][c]
      ]_vars

\* C12: a received flow to or from a protected address reaches the
\* sketches, from the first flow on (every flow of Flows goes to a protected
\* destination, so each receipt changes a cell of the destination sketch).
C12_NoFlowDiscarded ==
    [][hist'.nflows > hist.nflows => dstIPs' # dstIPs]_vars

\* C13: the sketch pair is handed to the pipe when the time base has
\* reached window start + W, the flow that brought the time there is not
\* in the pair handed over, and when the handoff is through every cell of
\* both live sketches is zero.
C13_WindowContents ==
    [][/\ (pcMain = "notifyWrite" /\ pcMain' = "notifyWait") =>
             /\ now >= currIntervalStart + WindowLength
             /\ pipe' = pipePut(pipe, PipeValue(dstIPs, srcIPs, hist'.posted))
       /\ (pcMain = "recv" /\ pcMain' = "notifyWrite") =>
             /\ now' >= currIntervalStart + WindowLength
             /\ dstIPs' = dstIPs /\ srcIPs' = srcIPs
       /\ (pcMain = "notifyWait" /\ pcMain' # pcMain) =>
             /\ dstIPs' = EmptyDstSketch /\ srcIPs' = EmptySrcSketch
      ]_vars

\* C14: a record with an address that is not IPv4 changes neither sketch,
\* not the window start, not the window counter, not the time base; nothing
\* is posted, and main is at the receive of the next record.
C14_NonIPv4Ignored ==
    [][hist'.skipped # hist.skipped =>
          /\ UNCHANGED <<dstIPs, srcIPs, currIntervalStart, windowID, first, now,
                         pipe, queueVars, engineVars>>
          /\ hist'.posted = hist.posted
          /\ pcMain = "recv" /\ pcMain' = "recv"
      ]_vars

\* such a record came in window 2 with flows in the sketches
C14_Witness ==
    /\ hist.skipped > 0
    /\ windowID = 2
    /\ dstIPs # EmptyDstSketch
    /\ srcIPs # EmptySrcSketch

\* C15: a step that touches neither the pipe, nor a queue, nor a local of
\* the detector thread does not change what the thread reads next: the
\* stop flag it tests after a read stays as it is.
C15_NoSharedState ==
    [][(pcEngine = "stopTest" /\ UNCHANGED <<pipe, queueVars, engineVars>>)
          => stop' = stop]_vars

\* the weight of all keys inserted
InsertedTotal == SumOver(DOMAIN operands.inserted, operands.inserted)

\* C16: when one key got more than half of the weight inserted into a
\* binCountSketchValue that was zero (the only key inserted is such a key),
\* reverseKey returns that key.
C16_MajorityKeyReversed ==
    \A k \in DOMAIN operands.inserted :
        2 * operands.inserted[k] > InsertedTotal
           => bcvReverseKey(operands.bcv) = k

\* a key with more than half of the weight next to two other keys
C16_Witness ==
    /\ Cardinality(DOMAIN operands.inserted) = 3
    /\ \E k \in DOMAIN operands.inserted :
         /\ 2 * operands.inserted[k] > InsertedTotal
         /\ k = 6

BitsWithinTotal(b) == \A i \in BitIdx : b.binCount[i] <= b.totalCount

\* C17: bits[i] <= total in every binCountSketchValue, whatever updates,
\* += and -= it went through.
C17_BitsWithinTotal ==
    /\ BitsWithinTotal(operands.bcv)
    /\ BitsWithinTotal(operands.a.reversibleKey)
    /\ BitsWithinTotal(operands.b.reversibleKey)

Scalars == {"sentBytes", "sentFlows", "packetCount", "byteCount", "flowCount"}

\* the map after -=, as the claim has it
MapReduced(new, old, other) ==
    /\ DOMAIN new \subseteq DOMAIN old
    /\ \A k \in DOMAIN new : new[k] >= 1 /\ new[k] = old[k] - MapGet(other, k)
    /\ \A k \in DOMAIN old :
          k \in DOMAIN new <=> MapGet(other, k) < old[k]

\* C18: after a -= b each scalar field of a, the total and each bit count
\* of its key is max(0, old a - b); each map entry left is its old value
\* less b's and at least 1; an entry b has at least as large is gone; no
\* key is new.
C18_SaturatingSub ==
    [][(operands'.op = "sub" /\ operands'.ops > operands.ops) =>
         /\ \A f \in Scalars :
              operands'.a[f] = Max(0, operands.a[f] - operands.b[f])
         /\ operands'.a.reversibleKey.totalCount =
               Max(0, operands.a.reversibleKey.totalCount
                        - operands.b.reversibleKey.totalCount)
         /\ \A i \in BitIdx :
              operands'.a.reversibleKey.binCount[i] =
                 Max(0, operands.a.reversibleKey.binCount[i]
                          - operands.b.reversibleKey.binCount[i])
         /\ MapReduced(operands'.a.communicatedWith, operands.a.communicatedWith,
                       operands.b.communicatedWith)
         /\ MapReduced(operands'.a.ipSubnets, operands.a.ipSubnets,
                       operands.b.ipSubnets)
         /\ operands'.b = operands.b
      ]_vars

\* a -= b left a with bytes and a subnet entry, took its sent bytes to 0
C18_Witness ==
    /\ operands.op = "sub"
    /\ operands.b.flowCount > 0
    /\ operands.a.byteCount > 0
    /\ operands.a.ipSubnets # EmptyMap
    /\ DOMAIN operands.b.ipSubnets # DOMAIN operands.a.ipSubnets

NotSmaller(new, old) ==
    /\ \A f \in Scalars : new[f] >= old[f]
    /\ new.reversibleKey.totalCount >= old.reversibleKey.totalCount
    /\ \A i \in BitIdx : new.reversibleKey.binCount[i] >= old.reversibleKey.binCount[i]
    /\ \A k \in DOMAIN old.communicatedWith :
          MapGet(new.communicatedWith, k) >= old.communicatedWith[k]
    /\ \A k \in DOMAIN old.ipSubnets : MapGet(new.ipSubnets, k) >= old.ipSubnets[k]

\* C19: update and += saturate: no counter of a value is smaller after the
\* operation than before.
C19_Saturating ==
    [][(operands'.op \in {"update", "add", "bcv"} /\ operands'.ops > operands.ops) =>
         /\ NotSmaller(operands'.a, operands.a)
         /\ NotSmaller(operands'.b, operands.b)
         /\ operands'.bcv.totalCount >= operands.bcv.totalCount
         /\ \A i \in BitIdx : operands'.bcv.binCount[i] >= operands.bcv.binCount[i]
      ]_vars

\* C20: when the thread has reversed a column of the snapshot that is not
\* empty (all its keys are of protected destinations), resultCell has the
\* flows, bytes and packets the row-0 cell of the column had, and the key
\* of that cell is left with total 0.
C20_ColumnDrained ==
    [][(pcEngine = "scan" /\ <<pcEngine, col>>' # <<pcEngine, col>>
           /\ val.dstIPs[0][col].count # 0) =>
         LET r == reverseAllKeys(val.dstIPs, val.srcIPs, col)
             cell == val.dstIPs[0][col].value
         IN  /\ r.resultCell.flowCount = cell.flowCount
             /\ r.resultCell.byteCount = cell.byteCount
             /\ r.resultCell.packetCount = cell.packetCount
             /\ r.dst[0][col].value.reversibleKey.totalCount = 0
      ]_vars

---------------------------------------------------------------------------
(* reverseAllKeys on the sketches processCurrentFlow builds *)

\* A pair of sketches filled by processCurrentFlow from empty, with the
\* number of flows inserted per destination key, and one reverseAllKeys on
\* a column of it.  Addresses 6 and 14 are of the protected prefix 6, and
\* address 10 is protected alone: its key 2 shares the column of key 6.
\* Keys 1 and 7 are protected and share column 1 of row 0 but not of row 1;
\* source 12 is of column 0 in row 0 and of column 1 in row 1, source 14
\* the other way round, source 2 of column 1 in both.
MaxSketchOps == 4

SketchFlows ==
    { netflowRecord(2, 6, 1, 1), netflowRecord(12, 14, 3, 2),
      netflowRecord(4, 10, 2, 1), netflowRecord(2, 1, 1, 1),
      netflowRecord(2, 7, 2, 1), netflowRecord(12, 1, 1, 1),
      netflowRecord(14, 1, 1, 1) }

DstKeys == 0 .. Pow2(HostShift) - 1

NoSketches ==
    [dst |-> EmptyDstSketch, src |-> EmptySrcSketch,
     inserted |-> [k \in DstKeys |-> 0], after |-> EmptyDstSketch,
     reversed |-> reverseAllKeys(EmptyDstSketch, EmptySrcSketch, 0),
     column |-> 0, ops |-> 0, op |-> "none"]

InitReverse ==
    /\ ProgramInit
    /\ learningSecs = 0
    /\ operands = NoSketches

SketchFlow(record) ==
    /\ operands.ops < MaxSketchOps
    /\ LET p == processCurrentFlow(operands.dst, operands.src, record)
           key == Prefix24(record.dstAddr)
       IN  operands' =
             [operands EXCEPT
                !.dst = p.dstIPs, !.src = p.srcIPs,
                !.inserted = IF isProtected(record.dstAddr)
                             THEN [@ EXCEPT ![key] = @ + 1] ELSE @,
                !.after = EmptyDstSketch, !.column = 0,
                !.reversed = NoSketches.reversed,
                !.ops = @ + 1, !.op = "flow"]
    /\ UNCHANGED programVars

SketchReverse(column) ==
    /\ operands.op = "flow"
    /\ operands' =
         [operands EXCEPT
            !.after = reverseAllKeys(operands.dst, operands.src, column).dst,
            !.reversed = reverseAllKeys(operands.dst, operands.src, column),
            !.column = column, !.op = "reverse"]
    /\ UNCHANGED programVars

NextReverse ==
    \/ \E record \in SketchFlows : SketchFlow(record)
    \/ \E column \in DstCols : SketchReverse(column)

SpecReverse == InitReverse /\ [][NextReverse]_vars

\* the keys of cell [i][c] that are not protected keys of column j of row 0
Unrelated(i, c, j) ==
    { k \in DstKeys : /\ getColDst(k, i) = c
                      /\ ~(isProtected(k) /\ getColDst(k, 0) = j) }

\* C21: after reverseAllKeys on column j the other cells of row 0 are as
\* before, and every cell still counts the flows of each of its keys that
\* is not a protected key of column j.
C21_UnrelatedUntouched ==
    operands.op = "reverse" =>
       /\ \A c \in DstCols \ {operands.column} :
             operands.after[0][c] = operands.dst[0][c]
       /\ \A i \in Rows, c \in DstCols :
             operands.after[i][c].count >=
                SumOver(Unrelated(i, c, operands.column), operands.inserted)

\* every index of a communicatedWith map of row i of the destination
\* sketch of v is a cell of row i of its source sketch that is not empty
CommWithInSource(v) ==
    \A i \in Rows, c \in DstCols :
       \A s \in DOMAIN v.dstIPs[i][c].value.communicatedWith :
          /\ s \in SrcCols
          /\ v.srcIPs[i][s].count # 0
          /\ v.srcIPs[i][s].value.totalCount # 0

\* C22: every snapshot written to the pipe, and the one the detector thread
\* reads from it, has every communicatedWith index of a
\* destination cell of row i at a source cell of row i that is not empty;
\* when notifyWorker has reset the sketches no destination cell has an
\* entry in communicatedWith.
C22_CommWithInSource ==
    [][/\ (pipeFree(pipe) /\ pipeReady(pipe')) =>
             CommWithInSource(Head(pipe'))
       /\ (pcEngine = "read" /\ pcEngine' # pcEngine) =>
             CommWithInSource(val')
       /\ (pcMain = "notifyWait" /\ pcMain' # pcMain) =>
             \A i \in Rows, c \in DstCols :
                dstIPs'[i][c].value.communicatedWith = EmptyMap
      ]_vars

\* the detector thread holds a snapshot with a communicatedWith entry, and
\* the sketches of main were reset
C22_Witness ==
    /\ pcEngine = "stopTest"
    /\ \E i \in Rows, c \in DstCols :
          val.dstIPs[i][c].value.communicatedWith # EmptyMap
    /\ pcMain = "getAlert"
    /\ dstIPs = EmptyDstSketch

---------------------------------------------------------------------------
(* AdaptiveCUSUM::process on one tracker *)

\* One AdaptiveCUSUM as constructed, fed samples (in 1/Scale) with either
\* value of learning.  `same` is the value of every sample so far, -1
\* before the first and -2 once two samples differed.
MaxSamples == 5

Samples == {0, 100, 300}

NoTracker ==
    [acu |-> AdaptiveCUSUM, same |-> -1, x |-> 0, lrn |-> FALSE,
     ops |-> 0, op |-> "none"]

AcuProcess(currentValue, learningNow) ==
    /\ operands.ops < MaxSamples
    /\ operands' =
         [acu |-> process(operands.acu, currentValue, learningNow),
          same |-> IF operands.same \in {-1, currentValue}
                   THEN currentValue ELSE -2,
          x |-> currentValue, lrn |-> learningNow,
          ops |-> operands.ops + 1, op |-> "process"]
    /\ UNCHANGED programVars

NextAcu ==
    \E currentValue \in Samples, learningNow \in BOOLEAN :
       AcuProcess(currentValue, learningNow)

InitAcu ==
    /\ ProgramInit
    /\ learningSecs = 0
    /\ operands = NoTracker

SpecAcu == InitAcu /\ [][NextAcu]_vars

\* C23: SH and SL are never negative, maxSH is at least SH and maxSL at
\* least SL after every process, and no process lowers maxSH or maxSL (so
\* each is at least every value its statistic has taken).
C23_MaximaTrack ==
    /\ [](/\ operands.acu.SH >= 0 /\ operands.acu.SL >= 0
          /\ operands.acu.maxSH >= operands.acu.SH
          /\ operands.acu.maxSL >= operands.acu.SL)
    /\ [][/\ operands'.acu.maxSH >= operands.acu.maxSH
          /\ operands'.acu.maxSL >= operands.acu.maxSL]_vars

\* a process lowered SH from a positive value, below the maximum kept
C23_Witness ==
    /\ operands.op = "process"
    /\ operands.acu.SH > 0
    /\ operands.acu.SH < operands.acu.maxSH
    /\ operands.acu.maxSL > 0

\* c * sqrt(v) of a tracker
Deviation(a) == (CNum * ISqrt(a.v * Scale)) \div CDen

\* C24: the first process sets m = x and v = 0 and leaves SH, SL, maxSH,
\* maxSL and windowID; a later one with learning and windowID < span leaves
\* SH, SL, maxSH and maxSL and counts the window; any other sets
\* SH = max(0, SH + (x - m) - c * sqrt(v)) and
\* SL = max(0, SL - (x - m) - c * sqrt(v)) with the new m and v.
C24_LearningGate ==
    [][operands'.op = "process" =>
         LET a == operands.acu
             b == operands'.acu
             x == operands'.x
         IN  IF a.first
             THEN /\ b.m = x /\ b.v = 0
                  /\ b.SH = a.SH /\ b.SL = a.SL
                  /\ b.maxSH = a.maxSH /\ b.maxSL = a.maxSL
                  /\ b.windowID = a.windowID
             ELSE IF operands'.lrn /\ a.windowID < SpanWindows
             THEN /\ b.SH = a.SH /\ b.SL = a.SL
                  /\ b.maxSH = a.maxSH /\ b.maxSL = a.maxSL
                  /\ b.windowID = a.windowID + 1
             ELSE /\ b.SH = Max(0, a.SH + (x - b.m) - Deviation(b))
                  /\ b.SL = Max(0, a.SL - (x - b.m) - Deviation(b))
                  /\ b.windowID = a.windowID + 1
      ]_vars

\* the last sample of the learning span came with learning set: it moved
\* the variance and left SH and SL at 0
C24_Witness ==
    /\ operands.op = "process"
    /\ operands.lrn
    /\ operands.acu.windowID = SpanWindows
    /\ operands.acu.v > 0
    /\ operands.acu.SH = 0 /\ operands.acu.SL = 0

\* thresholds that are not negative, d = 0 included
SomeThresholds == { Rat(0, 1), Rat(1, 2), Rat(7, 1), Rat(1, 0) }

\* C25: after any number of samples that were all the same value, v, SH,
\* SL, maxSH and maxSL are 0, and the tracker is no positive and no
\* negative anomaly for a threshold that is not negative.
C25_FlatSeries ==
    operands.same >= 0 =>
       /\ operands.acu.v = 0
       /\ operands.acu.SH = 0 /\ operands.acu.SL = 0
       /\ operands.acu.maxSH = 0 /\ operands.acu.maxSL = 0
       /\ operands.acu.m = operands.same
       /\ \A th \in SomeThresholds, mult \in 0 .. 3 :
             /\ ~isPositiveAnomaly([operands.acu EXCEPT !.thresholdHigh = th], mult)
             /\ ~isNegativeAnomaly([operands.acu EXCEPT !.thresholdLow = th], mult)

\* the same positive value was fed as often as the bound allows, past the
\* learning span
C25_Witness ==
    /\ operands.same > 0
    /\ operands.ops >= 4
    /\ operands.acu.windowID > SpanWindows

\* the number of process calls a tracker has had
SampleCount(a) == IF a.first THEN 0 ELSE a.windowID + 1

---------------------------------------------------------------------------
(* getQuantileSortedVec on sorted vectors *)

\* A sorted vector of up to MaxVecLen positive maxima (in 1/Scale) and a
\* quantile qn / QuantileSteps of [0, 1]; one call of getQuantileSortedVec.
MaxVecLen == 3
QuantileSteps == 4

VecValues == {10, 25, 40, 45}

SortedVecs ==
    { s \in UNION { [1 .. n -> VecValues] : n \in 1 .. MaxVecLen } :
        \A i \in 1 .. Len(s) - 1 : s[i] <= s[i + 1] }

InitQuantile ==
    /\ ProgramInit
    /\ learningSecs = 0
    /\ operands \in { [vec |-> s, qn |-> n, result |-> 0, op |-> "none"] :
                         s \in SortedVecs, n \in 0 .. QuantileSteps }

QuantileCall ==
    /\ operands.op = "none"
    /\ operands' =
         [operands EXCEPT
            !.result = getQuantileSortedVec(operands.vec, operands.qn,
                                            QuantileSteps),
            !.op = "quantile"]
    /\ UNCHANGED programVars

SpecQuantile == InitQuantile /\ [][QuantileCall]_vars

---------------------------------------------------------------------------
(* The thresholds: installed after learning, written, read at a start *)

\* The five vectors as a learning period can leave them: the trackers of
\* bytes and entropy with maxima of LearnedHigh and LearnedLow, those of
\* the other metrics with one maximum in column 0 and none in column 1.
\* The thresholds are installed (learningSecs_ not 0), written to
\* thresholds.csv, and read by an engine started with learningSecs_ = 0.
LearnedHigh == {0, 40, 1234}
LearnedLow == {0, 20}

Learned(high, low) ==
    [AdaptiveCUSUM EXCEPT !.first = FALSE, !.windowID = SpanWindows + 1,
                          !.maxSH = high, !.maxSL = low]

LearnedVectors ==
    { [mt \in Metrics |-> [j \in DstCols |->
         IF mt = "bytes" THEN Learned(b[j][1], b[j][2])
         ELSE IF mt = "entropy" THEN Learned(e[j][1], e[j][2])
         ELSE IF j = 0 THEN Learned(60, 0)
         ELSE Learned(0, 0)]] :
        b \in [DstCols -> LearnedHigh \X LearnedLow],
        e \in [DstCols -> LearnedHigh \X LearnedLow] }

InitInstall ==
    /\ ProgramInit
    /\ learningSecs = 0
    /\ operands \in { [cusum |-> cs, file |-> ZeroFile,
                       loaded |-> [mt \in Metrics |-> [j \in DstCols |-> AdaptiveCUSUM]],
                       op |-> "none"] : cs \in LearnedVectors }

InstallLearned ==
    /\ operands.op = "none"
    /\ \E secs \in LearningChoices \ {0} :
          operands' = [operands EXCEPT
                         !.cusum = setCusumTresholds(@, secs, operands.file),
                         !.op = "install"]
    /\ UNCHANGED programVars

InstallWrite ==
    /\ operands.op = "install"
    /\ operands' = [operands EXCEPT !.file = updateThresholds(operands.cusum),
                                    !.op = "write"]
    /\ UNCHANGED programVars

InstallRead ==
    /\ operands.op = "write"
    /\ operands' = [operands EXCEPT
                      !.loaded = setCusumTresholds(@, 0, operands.file),
                      !.op = "read"]
    /\ UNCHANGED programVars

NextInstall ==
    \/ InstallLearned
    \/ InstallWrite
    \/ InstallRead

SpecInstall == InitInstall /\ [][NextInstall]_vars

\* the thresholds were installed from the learned maxima
Installed == operands.op = "install"

\* C27: after the installation that follows a learning period, the high
\* threshold of the tracker of every metric and column is its own maxSH
\* when that is positive and otherwise the value getQuantileThresholdHigh
\* gave for the vector of the metric; the low threshold of the entropy
\* tracker is its own maxSL when positive and otherwise the value
\* getQuantileThresholdLow gave for the entropy vector.
C27_OwnMaxElseQuantile ==
    Installed =>
       \A j \in DstCols :
          /\ \A mt \in Metrics :
                LET a == operands.cusum[mt][j]
                IN  a.thresholdHigh =
                       IF a.maxSH > 0 THEN Rat(a.maxSH, 1)
                       ELSE Rat(getQuantileThresholdHigh(operands.cusum[mt]), 1)
          /\ LET a == operands.cusum["entropy"][j]
             IN  a.thresholdLow =
                    IF a.maxSL > 0 THEN Rat(a.maxSL, 1)
                    ELSE Rat(getQuantileThresholdLow(operands.cusum["entropy"]), 1)

\* a column took its own maximum for bytes and a quantile that is not 0
\* for the high threshold of entropy
C27_Witness ==
    /\ Installed
    /\ \E j \in DstCols :
          /\ operands.cusum["bytes"][j].maxSH > 0
          /\ operands.cusum["bytes"][j].thresholdHigh.n > 0
          /\ operands.cusum["entropy"][j].maxSH = 0
          /\ operands.cusum["entropy"][j].thresholdHigh.n > 0

\* position QuantileNum / QuantileDen of the positive values of f
QuantileOfPositive(f) ==
    LET positive == SortedPositive(f, InnerSizeDstIPs)
    IN  IF positive = <<>> THEN 0
        ELSE getQuantileSortedVec(positive, QuantileNum, QuantileDen)

\* C28: the quantile a column without a maximum of its own is given as
\* high threshold is the quantile of the positive maxSH of the trackers of
\* the metric, and as low entropy threshold that of the positive maxSL of
\* the entropy trackers (0 only when there is no positive one).
C28_QuantileOfOwnKind ==
    Installed =>
       \A j \in DstCols :
          /\ \A mt \in Metrics :
                operands.cusum[mt][j].maxSH = 0 =>
                   operands.cusum[mt][j].thresholdHigh =
                      Rat(QuantileOfPositive(
                            [c \in DstCols |-> operands.cusum[mt][c].maxSH]), 1)
          /\ operands.cusum["entropy"][j].maxSL = 0 =>
                operands.cusum["entropy"][j].thresholdLow =
                   Rat(QuantileOfPositive(
                         [c \in DstCols |-> operands.cusum["entropy"][c].maxSL]), 1)

\* the two thresholds are the same number
SameThreshold(s, t) == s.n * t.d = t.n * s.d /\ (s.d = 0 <=> t.d = 0)

\* C30: the engine that read the file written has, in every column, the
\* six thresholds the engine that wrote it had.
C30_RoundTrip ==
    operands.op = "read" =>
       \A j \in DstCols :
          /\ \A mt \in Metrics :
                SameThreshold(operands.loaded[mt][j].thresholdHigh,
                              operands.cusum[mt][j].thresholdHigh)
          /\ SameThreshold(operands.loaded["entropy"][j].thresholdLow,
                           operands.cusum["entropy"][j].thresholdLow)

---------------------------------------------------------------------------
(* getTopNSrcIPs on vectors of reversed sources *)

\* A vector of up to MaxReversed reversed sources (address, flows), the
\* entry of a position kept with its position; address 2 is whitelisted,
\* address 1 protected, and an address may be recovered twice.
MaxReversed == 3

ReversedAddresses == {1, 2, 4, 12}
ReversedFlows == {1, 2}

ReversedVectors ==
    { { [idx |-> i, ip |-> f[i][1], flows |-> f[i][2]] : i \in S } :
        f \in [0 .. MaxReversed - 1 -> ReversedAddresses \X ReversedFlows],
        S \in SUBSET (0 .. MaxReversed - 1) }

InitTopN ==
    /\ ProgramInit
    /\ learningSecs = 0
    /\ operands \in { [entries |-> v, result |-> {}, op |-> "none"] :
                         v \in ReversedVectors }

TopNCall ==
    /\ operands.op = "none"
    /\ \E res \in getTopNSrcIPs(operands.entries) :
          operands' = [operands EXCEPT !.result = res, !.op = "topN"]
    /\ UNCHANGED programVars

SpecTopN == InitTopN /\ [][TopNCall]_vars

\* the entries of the vector with an address off the whitelist
Eligible == { e \in operands.entries : OffWhitelist(e.ip) }

---------------------------------------------------------------------------
(* Alerts of two columns of one snapshot *)

\* The replay with every flow sent to address 1 (column 1) preceded, in
\* the same window, by its like to address 6 (column 0), both protected;
\* no feedback.
TwinOf(record) == [record EXCEPT !.dstAddr = 6]

RECURSIVE Twinned(_)
Twinned(script) ==
    IF script = <<>> THEN <<>>
    ELSE <<[record |-> TwinOf(Head(script).record), dt |-> 0], Head(script)>>
            \o Twinned(Tail(script))

ColumnsScript ==
    Twinned(<<[record |-> Quiet, dt |-> 0], [record |-> Quiet, dt |-> WindowLength]>>
            \o ReplayedWindows \o ReplayedWindows)

NextColumns ==
    \/ /\ hist.nflows < Len(ColumnsScript)
       /\ MainReceive(ColumnsScript[hist.nflows + 1].record,
                      ColumnsScript[hist.nflows + 1].dt)
    \/ MainNotifyPost
    \/ MainNotifyReturn
    \/ MainTail(0)
    \/ EngineInit
    \/ EngineRead
    \/ EngineStopTest
    \/ EngineCheckFP
    \/ EngineScan

SpecColumns == InitDetect /\ [][NextColumns]_vars

\* the alerts pushed so far, in the order of the pushes
Pushed == [i \in DOMAIN hist.alerts |-> hist.alerts[i].alert]

\* C32: of two alerts pushed for one snapshot the earlier has the smaller
\* column index (so a snapshot has at most one alert of a column), and the
\* alerts sent to the host followed by those still queued are the alerts
\* pushed, in the order of the pushes.
C32_AscendingColumns ==
    /\ \A i, j \in DOMAIN hist.alerts :
          (i < j /\ hist.alerts[i].snapshot = hist.alerts[j].snapshot)
             => hist.alerts[i].alert.cusumID < hist.alerts[j].alert.cusumID
    /\ sentAlerts \o dosAlertsQueue = Pushed

\* two alerts of one snapshot were pushed, and both were sent
C32_Witness ==
    /\ \E i, j \in DOMAIN hist.alerts :
          i < j /\ hist.alerts[i].snapshot = hist.alerts[j].snapshot
    /\ Len(sentAlerts) >= 2
    /\ sentAlerts[1].cusumID < sentAlerts[2].cusumID

---------------------------------------------------------------------------
(* main: the span option *)

\* main as its options were read: without -s (spanArg = -1) span and alpha
\* keep their initial values 60 and 0.0769; with -s n (digits only) span
\* is n and alpha 1.0f / (span + 1.0f).  The pair is what the detector,
\* and by it every AdaptiveCUSUM, is constructed with.
MaxSpanArg == 60

InitOptions ==
    /\ ProgramInit
    /\ learningSecs = 0
    /\ operands \in { [spanArg |-> a, span |-> 60, alpha |-> Rat(769, 10000),
                       op |-> "none"] : a \in -1 .. MaxSpanArg }

ParseOptions ==
    /\ operands.op = "none"
    /\ operands' =
         IF operands.spanArg = -1
         THEN [operands EXCEPT !.op = "parsed"]
         ELSE [operands EXCEPT !.span = operands.spanArg,
                               !.alpha = Rat(1, operands.spanArg + 1),
                               !.op = "parsed"]
    /\ UNCHANGED programVars

SpecOptions == InitOptions /\ [][ParseOptions]_vars

\* C33: the alpha the trackers are constructed with is 2 / (span + 1), for
\* the span of 60 main starts with and for every span given with -s.
C33_AlphaOfSpan ==
    operands.op = "parsed" =>
       operands.alpha.n * (operands.span + 1) = 2 * operands.alpha.d

---------------------------------------------------------------------------
(* checkFalsePositives on the records of the feedback interface *)

\* The five vectors of an engine with thresholds 0, and records as main
\* takes them from input interface 1: measurements, a destination and the
\* field CUSUM_ID, which main copies without a test.  An index outside the
\* vectors is undefined behaviour of operator[]: the process may stop, or
\* the write lands outside the vectors and the engine goes on.
MaxFeedback == 3

FeedbackRecords ==
    { [measured |-> [mt \in Metrics |-> m], cusumID |-> id, dstIP |-> d] :
        m \in {50, 70}, id \in 0 .. InnerSizeDstIPs, d \in {1, 10} }

InitFeedback ==
    /\ ProgramInit
    /\ learningSecs = 0
    /\ operands = [cusum |-> [mt \in Metrics |-> [j \in DstCols |-> AdaptiveCUSUM]],
                   accessed |-> {}, outcome |-> "none", ops |-> 0]

FeedbackApply(falsePositive) ==
    /\ operands.ops < MaxFeedback
    /\ operands.outcome # "stopped"
    /\ IF falsePositive.cusumID \in DstCols
       THEN operands' =
              [operands EXCEPT
                 !.cusum = checkFalsePositives(@, falsePositive),
                 !.accessed = @ \cup {falsePositive.cusumID},
                 !.outcome = "applied", !.ops = @ + 1]
       ELSE \E result \in {"stopped", "strayWrite"} :
              operands' =
                [operands EXCEPT
                   !.accessed = @ \cup {falsePositive.cusumID},
                   !.outcome = result, !.ops = @ + 1]
    /\ UNCHANGED programVars

NextFeedback == \E falsePositive \in FeedbackRecords : FeedbackApply(falsePositive)

SpecFeedback == InitFeedback /\ [][NextFeedback]_vars

\* C34: every index checkFalsePositives used on the five vectors is a
\* column of the destination sketch, 0 .. w_dst - 1.
C34_IndicesInRange == operands.accessed \subseteq DstCols

---------------------------------------------------------------------------
(* The loops of reverseAllKeys and reverseSrcIPs *)

\* the passes of the loop body in the last reverseAllKeys
Passes == operands.reversed.iterations

C36_RowsOfAccumulatedCells ==
    operands.op = "reverse" =>
        \A s \in DOMAIN operands.reversed.resultCell.communicatedWith :
            /\ s \in DOMAIN operands.reversed.rows
            /\ \A i \in 1 .. Len(Passes) :
                  (~Passes[i].broke /\ s \in Passes[i].comm)
                      => operands.reversed.rows[s] = Passes[i].row


\* C37: every key processCurrentFlow inserted into the destination sketch,
\* the /24 key of a destination isProtected accepted, is a key the test
\* isProtected(onlyPrefix) of reverseAllKeys accepts.
C37_IngressKeysProtected ==
    \A k \in DstKeys : operands.inserted[k] > 0 => isProtected(k)

---------------------------------------------------------------------------
(* A run that finds the thresholds.csv of an earlier run *)

\* thresholds.csv as an earlier run wrote it: threshold 40 in every field
\* of every column
EarlierFile == [j \in DstCols |-> [f \in FileFields |-> Rat(40, 1)]]

ShutdownScript ==
    <<[record |-> Quiet, dt |-> 0], [record |-> Quiet, dt |-> WindowLength],
      [record |-> Quiet, dt |-> WindowLength], [record |-> Attack, dt |-> 0],
      [record |-> Quiet, dt |-> WindowLength]>>

InitShutdown ==
    /\ now = StartTime
    /\ pcMain = "recv"
    /\ first = TRUE
    /\ windowID = 0
    /\ currIntervalStart = 0
    /\ falsePositiveCheckStart = 0
    /\ dstIPs = EmptyDstSketch
    /\ srcIPs = EmptySrcSketch
    /\ pipe = <<>>
    /\ stop = FALSE
    /\ pcEngine = "notStarted"
    /\ val = NoValue
    /\ col = 0
    /\ currTime = 0
    /\ learning = TRUE
    /\ thresholdSet = FALSE
    /\ learn_until = 0
    /\ learningSecs \in LearningChoices
    /\ cusum = [mt \in Metrics |-> [j \in DstCols |-> AdaptiveCUSUM]]
    /\ dosAlertsQueue = <<>>
    /\ dosFalsePositivesQueue = <<>>
    /\ thresholdsFile = EarlierFile
    /\ sentAlerts = <<>>
    /\ hist = NoHistory
    /\ operands = NoOperands

NextShutdown ==
    \/ /\ hist.nflows < Len(ShutdownScript)
       /\ MainReceive(ShutdownScript[hist.nflows + 1].record,
                      ShutdownScript[hist.nflows + 1].dt)
    \/ MainNotifyPost
    \/ MainNotifyReturn
    \/ MainTail(0)
    \/ DtorSetStop
    \/ DtorWritePost
    \/ DtorWriteReturn
    \/ DtorJoin
    \/ EngineInit
    \/ EngineRead
    \/ EngineStopTest
    \/ EngineCheckFP
    \/ EngineScan

SpecShutdown == InitShutdown /\ [][NextShutdown]_vars

\* C38: when the engine has returned without having installed thresholds,
\* thresholds.csv still holds the thresholds of the earlier run.
C38_ShutdownKeepsInstalled ==
    (pcEngine = "returned" /\ ~thresholdSet) => thresholdsFile = EarlierFile


\* C39: the alerts sent followed by the alerts queued are the alerts
\* pushed, in the order of the pushes, and when main has left its loop and
\* the destructor has joined the thread no alert is left in the queue.
C39_AlertsAllSent ==
    /\ sentAlerts \o dosAlertsQueue = Pushed
    /\ pcMain = "done" => dosAlertsQueue = <<>>
====
